---- MODULE Spec2Model ----
(***************************************************************************)
(* A model of the council orchestration engine of sandironratio-node:      *)
(* the convening ceremony (src/src/council/convening.py), the agents'      *)
(* admission state and task tables (agents/base_agent.py), the chair's     *)
(* routing, redistribution and deployment (agents/tess.py) and the         *)
(* diligence ledger (diligence_ledger.py).                                 *)
(*                                                                         *)
(* Numbers.  Confidence scores are kept in units of 1/300 (so that m/3,    *)
(* m/2, +0.3, +0.4, *0.3 and *0.2 are all exact), stress and cognitive     *)
(* load in units of 1/100, hours in whole hours, quality scores in tenths, *)
(* multipliers in units of 1/1000 and NECTAR in units of 1/100.            *)
(***************************************************************************)
EXTENDS Integers, Sequences, FiniteSets, TLC

VARIABLES
    phase,               \* CouncilConvening.phase
    current_briefing,    \* CouncilConvening.current_briefing
    deliberation_record, \* CouncilConvening.deliberation_record
    current_proposal,    \* CouncilConvening.current_proposal
    sofie_briefing,      \* BaseAgent.sofie_briefing, per agent
    current_meeting,     \* TessAgent.current_meeting
    biometrics,          \* BaseAgent.biometrics, per agent
    tasks,               \* BaseAgent.tasks, per agent: task id -> Task
    current_task,        \* BaseAgent.current_task, per agent
    resting,             \* per agent: the take_break / rest coroutine suspended in its sleep
    clock,               \* datetime.utcnow(): the source of task ids and timestamps
    records,             \* DiligenceLedger.records
    agent_totals,        \* DiligenceLedger.agent_totals
    disk,                \* the document at DiligenceLedger.ledger_path
    hex_ledger,          \* HexAgent.ledger
    accrual_history,     \* HexAgent.accrual_history
    client,              \* CouncilGitHubClient: its token, workspace and owner
    last                 \* the last ceremony call: its name, what it returned, the phases it set

vars == <<phase, current_briefing, deliberation_record, current_proposal,
          sofie_briefing, current_meeting, biometrics, tasks, current_task,
          resting, clock, records, agent_totals, disk, hex_ledger,
          accrual_history, client, last>>

ceremonyVars == <<phase, current_briefing, deliberation_record, current_proposal,
                  sofie_briefing, current_meeting>>
agentVars == <<biometrics, tasks, current_task, resting, clock>>
hexVars == <<hex_ledger, accrual_history>>
ledgerVars == <<records, agent_totals, disk, hexVars>>

\* Python's None, where a dict or an object may stand; NoAgent where a name may stand
None == [None |-> TRUE]
NoAgent == "None"

(***************************************************************************)
(* Text: str.lower() and the substring test `keyword in description`.      *)
(***************************************************************************)
LowerChar(c) ==
    CASE c = "A" -> "a" [] c = "B" -> "b" [] c = "C" -> "c" [] c = "D" -> "d"
      [] c = "E" -> "e" [] c = "F" -> "f" [] c = "G" -> "g" [] c = "H" -> "h"
      [] c = "I" -> "i" [] c = "J" -> "j" [] c = "K" -> "k" [] c = "L" -> "l"
      [] c = "M" -> "m" [] c = "N" -> "n" [] c = "O" -> "o" [] c = "P" -> "p"
      [] c = "Q" -> "q" [] c = "R" -> "r" [] c = "S" -> "s" [] c = "T" -> "t"
      [] c = "U" -> "u" [] c = "V" -> "v" [] c = "W" -> "w" [] c = "X" -> "x"
      [] c = "Y" -> "y" [] c = "Z" -> "z" [] OTHER -> c

RECURSIVE Lower(_)
Lower(s) == IF Len(s) = 0 THEN ""
            ELSE LowerChar(SubSeq(s, 1, 1)) \o Lower(SubSeq(s, 2, Len(s)))

\* Python's `k in d` for strings
Contains(k, d) ==
    \E i \in 1..(Len(d) - Len(k) + 1) : SubSeq(d, i, i + Len(k) - 1) = k

AnyIn(terms, d) == \E k \in terms : Contains(k, d)
Matches(keywords, d) == Cardinality({k \in keywords : Contains(k, d)})
Min(a, b) == IF a < b THEN a ELSE b
Max(a, b) == IF a > b THEN a ELSE b

(***************************************************************************)
(* The roster (agents/__init__.py create_council) in dict order.           *)
(***************************************************************************)
AgentOrder == <<"veda", "aura", "hex", "node", "spark", "tess">>
Agents == {AgentOrder[i] : i \in 1..Len(AgentOrder)}

(***************************************************************************)
(* can_handle_task of the six agents, in units of 1/300.                   *)
(***************************************************************************)
Unit == 300                \* 1.0
Threshold == 90            \* 0.3, the threshold for consideration
TieMargin == 60            \* 0.2, the margin under which a conflict is recorded

VEDA_KEYWORDS ==
    {"backend", "api", "server", "database", "algorithm", "python", "node",
     "typescript", "logic", "core", "architecture", "schema", "migration",
     "orm", "microservice", "docker", "kubernetes", "infrastructure"}
AURA_KEYWORDS ==
    {"review", "validate", "audit", "test", "check", "wellness", "health",
     "stress", "calm", "accessibility", "documentation", "quality", "safety",
     "compliance"}
HEX_KEYWORDS ==
    {"nectar", "token", "economic", "diligence", "ledger", "accrual", "reward",
     "compensation", "blockchain", "genesis"}
NODE_KEYWORDS ==
    {"docker", "kubernetes", "k8s", "devops", "ci/cd", "pipeline",
     "integration", "bridge", "api", "service", "port", "container",
     "deployment", "orchestration", "health", "monitoring"}
SPARK_KEYWORDS ==
    {"frontend", "ui", "ux", "design", "css", "react", "vue", "component",
     "interface", "visual", "creative", "documentation", "template", "html",
     "responsive", "calm", "accessible"}
TESS_KEYWORDS ==
    {"coordinate", "facilitate", "chair", "optimize", "balance", "timeline",
     "dependency", "conflict", "topology", "distribute", "manage", "resolve",
     "plan", "architecture"}

\* min(1.0, matches / n)
Base(keywords, n, d) == Min(Unit, (Unit * Matches(keywords, d)) \div n)

veda_can_handle_task(task_description) ==
    LET d == Lower(task_description)
        c0 == Base(VEDA_KEYWORDS, 3, d)
        c1 == IF AnyIn({"api", "backend", "server", "database"}, d)
              THEN Min(Unit, c0 + 90) ELSE c0
    IN  IF AnyIn({"ui", "frontend", "css", "react component"}, d)
        THEN (c1 * 3) \div 10 ELSE c1

aura_can_handle_task(task_description) ==
    LET d == Lower(task_description)
        c0 == Base(AURA_KEYWORDS, 2, d)
    IN  IF AnyIn({"review", "validate", "audit"}, d)
        THEN Min(Unit, c0 + 120) ELSE c0

hex_can_handle_task(task_description) ==
    Base(HEX_KEYWORDS, 2, Lower(task_description))

node_can_handle_task(task_description) ==
    LET d == Lower(task_description)
        c0 == Base(NODE_KEYWORDS, 3, d)
    IN  IF Contains("bridge", d) \/ Contains("integration", d)
        THEN Min(Unit, c0 + 120) ELSE c0

spark_can_handle_task(task_description) ==
    LET d == Lower(task_description)
        c0 == Base(SPARK_KEYWORDS, 2, d)
        c1 == IF AnyIn({"design", "ui", "ux", "creative"}, d)
              THEN Min(Unit, c0 + 120) ELSE c0
    IN  IF AnyIn({"backend", "database", "algorithm"}, d)
        THEN c1 \div 5 ELSE c1

tess_can_handle_task(task_description) ==
    LET d == Lower(task_description)
        c0 == Base(TESS_KEYWORDS, 2, d)
    IN  IF AnyIn({"coordinate", "plan", "chair", "manage"}, d)
        THEN Min(Unit, c0 + 120) ELSE c0

\* agent.can_handle_task(task_desc), dispatched on the agent's class
can_handle_task(agent, task_description) ==
    CASE agent = "veda"  -> veda_can_handle_task(task_description)
      [] agent = "aura"  -> aura_can_handle_task(task_description)
      [] agent = "hex"   -> hex_can_handle_task(task_description)
      [] agent = "node"  -> node_can_handle_task(task_description)
      [] agent = "spark" -> spark_can_handle_task(task_description)
      [] agent = "tess"  -> tess_can_handle_task(task_description)

(***************************************************************************)
(* TessAgent's keyword heuristics.                                         *)
(***************************************************************************)
_estimate_hours(task) ==
    LET t == Lower(task)
    IN  IF Contains("simple", t) \/ Contains("docs", t) THEN 4
        ELSE IF Contains("complex", t) \/ Contains("architecture", t) THEN 16
        ELSE 8

\* a faulty _determine_repo that takes a repository named in the task for its target;
\* C40 fails with it
_determine_repo_as_named(task) ==
    LET t == Lower(task)
    IN  IF Contains("sofie-llama-backend", t) THEN "sofie-llama-backend"
        ELSE IF Contains("wellness", t) THEN "pollen"
        ELSE IF Contains("bridge", t) \/ Contains("api", t) THEN "terracare-bridge"
        ELSE IF Contains("hive", t) THEN "hive-api"
        ELSE "sandironratio-node"

_determine_repo(task) ==
    LET t == Lower(task)
    IN  IF Contains("wellness", t) THEN "pollen"
        ELSE IF Contains("bridge", t) \/ Contains("api", t) THEN "terracare-bridge"
        ELSE IF Contains("hive", t) THEN "hive-api"
        ELSE "sandironratio-node"

(***************************************************************************)
(* The briefings given to receive_briefing, and what the keyword           *)
(* heuristics make of their task descriptions, tabulated once.             *)
(***************************************************************************)
DEFAULT_NOTICE ==
    "sofie-llama-backend is sovereign territory - council builds external interfaces only"

\* briefings: the empty dict, one without and two with a protected_notice
Briefings ==
    {<<>>,
     [critical_path |-> <<"design UI component">>],
     [critical_path |-> <<"complex architecture plan", "complex architecture plan",
                          "complex architecture plan">>,
      protected_notice |-> "sovereign"]}

\* a task three agents score on, two of them a ring step either side of aura; the
\* backend task of the routing scenario; a task no agent scores on
RoutingTasks == {"token ledger api bridge", "build backend API", "tidy notes"}

\* tasks that name sovereign territory, one for each answer of _determine_repo
TargetTasks ==
    {"rebuild sofie-llama-backend", "sofie-backend wellness check",
     "patch sofie-llama-backend api", "sofie hive sync"}

Descriptions ==
    RoutingTasks \cup TargetTasks \cup
    UNION {{b.critical_path[i] : i \in 1..Len(b.critical_path)} :
              b \in {x \in Briefings : "critical_path" \in DOMAIN x}}

TaskFacts ==
    [d \in Descriptions |->
        [confidence |-> [a \in Agents |-> can_handle_task(a, d)],
         estimated_hours |-> _estimate_hours(d),
         repo |-> _determine_repo(d),
         bridge_or_api |-> Contains("bridge", Lower(d)) \/ Contains("api", Lower(d)),
         integration |-> Contains("integration", Lower(d)),
         backend |-> Contains("backend", Lower(d)),
         component |-> AnyIn({"component", "service", "api"}, Lower(d))]]

Confidence(agent, task) == TaskFacts[task].confidence[agent]

(***************************************************************************)
(* AgentBiometrics: the admission gate.                                    *)
(***************************************************************************)
MAX_CONCURRENT_TASKS == 3
MAX_HOURS_PER_DAY == 8
STRESS_THRESHOLD == 70       \* 0.7
LOAD_THRESHOLD == 80         \* 0.8
BREAK_RELIEF == 30           \* 0.3, what take_break takes off stress and load
COMPLETE_RELIEF == 20        \* 0.2, what complete_task takes off the load

\* AgentBiometrics() as constructed
NewBiometrics ==
    [stress_level |-> 0, cognitive_load |-> 0, concurrent_tasks |-> 0,
     hours_worked_today |-> 0, current_status |-> "idle"]

\* a faulty needs_rest that already rests at a stress of exactly 0.7; C20 fails with it
needs_rest_at_threshold(b) ==
    \/ b.stress_level >= STRESS_THRESHOLD
    \/ b.hours_worked_today >= MAX_HOURS_PER_DAY
    \/ b.cognitive_load > LOAD_THRESHOLD

needs_rest(b) ==
    \/ b.stress_level > STRESS_THRESHOLD
    \/ b.hours_worked_today >= MAX_HOURS_PER_DAY
    \/ b.cognitive_load > LOAD_THRESHOLD

\* a faulty gate that forgets the capacity test; C1 fails with it
can_accept_task_uncapped(b) ==
    IF needs_rest(b) THEN FALSE
    ELSE IF b.current_status = "recovery" THEN FALSE
    ELSE TRUE

can_accept_task(b) ==
    IF b.concurrent_tasks >= MAX_CONCURRENT_TASKS THEN FALSE
    ELSE IF needs_rest(b) THEN FALSE
    ELSE IF b.current_status = "recovery" THEN FALSE
    ELSE TRUE

(***************************************************************************)
(* BaseAgent's task operations, as functions of the agents' state          *)
(*   st = [biometrics, tasks, current_task, clock].                        *)
(* A Task is [title, repo, estimated_hours, status, started].              *)
(***************************************************************************)
AgentState == [biometrics |-> biometrics, tasks |-> tasks,
               current_task |-> current_task, clock |-> clock]

\* Task(id=f"council_{agent}_{utcnow().timestamp()}", ...): the id is the clock's reading
NewTask(title, repo, estimated_hours) ==
    [title |-> title, repo |-> repo, estimated_hours |-> estimated_hours,
     status |-> "pending", started |-> FALSE]

\* assign_task: TRUE iff the gate admits the task
assign_task_accepts(st, a) == can_accept_task(st.biometrics[a])

\* assign_task, the accepting branch: the task enters the table under id, pending
assign_task(st, a, id, task) ==
    [st EXCEPT !.tasks[a] = [i \in (DOMAIN @) \cup {id} |->
                                IF i = id THEN [task EXCEPT !.status = "pending"]
                                ELSE @[i]],
               !.biometrics[a].concurrent_tasks = @ + 1]

\* a faulty start_task that leaves the task pending once the ledger has entries;
\* C25 fails with it
start_task_when_uncredited(st, a, id) ==
    IF records # <<>> THEN st
    ELSE [st EXCEPT !.tasks[a][id].started = TRUE,
                    !.tasks[a][id].status = "in_progress",
                    !.current_task[a] = [id |-> id],
                    !.biometrics[a].current_status = "working"]

\* start_task on a task of the table
start_task(st, a, id) ==
    [st EXCEPT !.tasks[a][id].started = TRUE,
               !.tasks[a][id].status = "in_progress",
               !.current_task[a] = [id |-> id],
               !.biometrics[a].current_status = "working"]

\* the hours complete_task books: the time since started_at, else the estimate
Duration(task, elapsed) == IF task.started THEN elapsed ELSE task.estimated_hours

\* complete_task on a task of the table; elapsed = completed_at - started_at
complete_task(st, a, id, elapsed) ==
    LET task == st.tasks[a][id]
        duration == Duration(task, elapsed)
        b == st.biometrics[a]
        n == b.concurrent_tasks - 1
    IN  [st EXCEPT !.tasks[a][id].status = "completed",
                   !.biometrics[a] =
                       [b EXCEPT !.concurrent_tasks = n,
                                 !.hours_worked_today = @ + duration,
                                 !.cognitive_load = Max(0, @ - COMPLETE_RELIEF),
                                 !.current_status = IF n = 0 THEN "idle" ELSE @],
                   !.current_task[a] = IF n = 0 THEN None ELSE @]

(***************************************************************************)
(* Python dictionaries are functions on their keys; d.get(k, default).     *)
(***************************************************************************)
Get(d, k, default) == IF k \in DOMAIN d THEN d[k] ELSE default
Truthy(d) == DOMAIN d # {}

RECURSIVE SumHours(_)
\* sum(a.get("estimated_hours", 4) for a in assignments)
SumHours(assignments) ==
    IF assignments = <<>> THEN 0
    ELSE Get(Head(assignments), "estimated_hours", 4) + SumHours(Tail(assignments))

(***************************************************************************)
(* TessAgent.facilitate_deliberation: routing by confidence.               *)
(***************************************************************************)
\* the agents whose confidence clears the threshold, in roster order
RECURSIVE ContendersFrom(_, _, _)
ContendersFrom(i, task_desc, b) ==
    IF i > Len(AgentOrder) THEN <<>>
    ELSE LET name == AgentOrder[i]
             confidence == Confidence(name, task_desc)
             rest == ContendersFrom(i + 1, task_desc, b)
         IN  IF confidence > Threshold
             THEN <<[agent |-> name, confidence |-> confidence,
                     available |-> can_accept_task(b[name])]>> \o rest
             ELSE rest

\* list.sort(key=confidence, reverse=True): stable, equal keys keep their order
RECURSIVE SortByConfidence(_)
InsertByConfidence(x, sorted) ==
    LET before == SelectSeq(sorted, LAMBDA y : y.confidence >= x.confidence)
        after == SelectSeq(sorted, LAMBDA y : y.confidence < x.confidence)
    IN  before \o <<x>> \o after
SortByConfidence(cs) ==
    IF cs = <<>> THEN <<>>
    ELSE InsertByConfidence(cs[Len(cs)], SortByConfidence(SubSeq(cs, 1, Len(cs) - 1)))

Contenders(task_desc, b) == SortByConfidence(ContendersFrom(1, task_desc, b))

IsConflict(contenders) ==
    /\ Len(contenders) > 1
    /\ contenders[1].confidence - contenders[2].confidence < TieMargin

\* a faulty choice that hands a task nobody scores on to the chair; C21 (as amended)
\* fails with it
Proposal_defaulting_to_chair(task_desc, b) ==
    LET contenders == Contenders(task_desc, b)
        best_agent == IF contenders # <<>> THEN contenders[1].agent ELSE "tess"
    IN  [task |-> task_desc,
         assigned_to |-> best_agent,
         confidence |-> IF contenders # <<>> THEN contenders[1].confidence ELSE Threshold,
         alternatives |-> IF Len(contenders) > 1
                          THEN [i \in 1..(Len(contenders) - 1) |-> contenders[i + 1].agent]
                          ELSE <<>>]

Proposal(task_desc, b) ==
    LET contenders == Contenders(task_desc, b)
        best_agent == IF contenders # <<>> THEN contenders[1].agent ELSE "veda"
    IN  [task |-> task_desc,
         assigned_to |-> best_agent,
         confidence |-> IF contenders # <<>> THEN contenders[1].confidence ELSE Threshold,
         alternatives |-> IF Len(contenders) > 1
                          THEN [i \in 1..(Len(contenders) - 1) |-> contenders[i + 1].agent]
                          ELSE <<>>]

facilitate_deliberation(briefing, b) ==
    LET critical_path == Get(briefing, "critical_path", <<>>)
        n == Len(critical_path)
    IN  [proposals |-> [i \in 1..n |-> Proposal(critical_path[i], b)],
         conflicts |-> SelectSeq([i \in 1..n |-> critical_path[i]],
                                 LAMBDA t : IsConflict(Contenders(t, b)))]

(***************************************************************************)
(* TessAgent.optimize_distribution and _redistribute_to_neighbor.          *)
(***************************************************************************)
neighbor_map ==
    [veda |-> <<"tess", "aura">>, aura |-> <<"veda", "hex">>,
     hex |-> <<"aura", "node">>, node |-> <<"hex", "spark">>,
     spark |-> <<"node", "tess">>, tess |-> <<"spark", "veda">>]

\* agent_loads[name]["available_capacity"] as first computed
InitialCapacity(b) ==
    [a \in Agents |-> MAX_CONCURRENT_TASKS - b[a].concurrent_tasks]

\* a faulty redistribution that takes the more confident of the two neighbours; C16
\* fails with it
_redistribute_to_best_neighbor(overloaded_agent, task, capacity) ==
    LET neighbors == neighbor_map[overloaded_agent]
        ok(n) == capacity[n] > 0 /\ Confidence(n, task) > Threshold
        first == IF Confidence(neighbors[2], task) > Confidence(neighbors[1], task)
                 THEN 2 ELSE 1
    IN  IF ok(neighbors[first]) THEN neighbors[first]
        ELSE IF ok(neighbors[3 - first]) THEN neighbors[3 - first]
        ELSE NoAgent

\* the first neighbour with capacity left and confidence above the threshold, or None
_redistribute_to_neighbor(overloaded_agent, task, capacity) ==
    LET neighbors == neighbor_map[overloaded_agent]
        ok(n) == capacity[n] > 0 /\ Confidence(n, task) > Threshold
    IN  IF ok(neighbors[1]) THEN neighbors[1]
        ELSE IF ok(neighbors[2]) THEN neighbors[2]
        ELSE NoAgent

\* a faulty first pass that moves a task away while its preferred agent still has one
\* place left; C17 (as amended) fails with it
PlanOne_sparing(proposal, capacity) ==
    LET preferred == proposal.assigned_to
        task == proposal.task
        alternative == _redistribute_to_neighbor(preferred, task, capacity)
    IN  IF capacity[preferred] > 1
        THEN [agent |-> preferred, task |-> task,
              estimated_hours |-> TaskFacts[task].estimated_hours,
              repo |-> TaskFacts[task].repo]
        ELSE IF alternative # NoAgent
        THEN [agent |-> alternative, task |-> task,
              estimated_hours |-> TaskFacts[task].estimated_hours,
              repo |-> TaskFacts[task].repo,
              redistributed_from |-> preferred,
              reason |-> "preferred_agent_at_capacity"]
        ELSE [agent |-> preferred, task |-> task,
              status |-> "queued", reason |-> "waiting_for_capacity"]

\* the assignment one proposal yields with the capacities left so far
PlanOne(proposal, capacity) ==
    LET preferred == proposal.assigned_to
        task == proposal.task
        alternative == _redistribute_to_neighbor(preferred, task, capacity)
    IN  IF capacity[preferred] > 0
        THEN [agent |-> preferred, task |-> task,
              estimated_hours |-> TaskFacts[task].estimated_hours,
              repo |-> TaskFacts[task].repo]
        ELSE IF alternative # NoAgent
        THEN [agent |-> alternative, task |-> task,
              estimated_hours |-> TaskFacts[task].estimated_hours,
              repo |-> TaskFacts[task].repo,
              redistributed_from |-> preferred,
              reason |-> "preferred_agent_at_capacity"]
        ELSE [agent |-> preferred, task |-> task,
              status |-> "queued", reason |-> "waiting_for_capacity"]

RECURSIVE PlanFrom_unreserved(_, _, _)
\* a faulty first pass that never takes a planned task off the table; C18 fails with it
PlanFrom_unreserved(i, proposals, capacity) ==
    IF i > Len(proposals) THEN <<>>
    ELSE <<PlanOne(proposals[i], capacity)>> \o PlanFrom_unreserved(i + 1, proposals, capacity)

RECURSIVE PlanFrom(_, _, _)
PlanFrom(i, proposals, capacity) ==
    IF i > Len(proposals) THEN <<>>
    ELSE LET a == PlanOne(proposals[i], capacity)
             reserved == IF Get(a, "status", "") = "queued" THEN capacity
                         ELSE [capacity EXCEPT ![a.agent] = @ - 1]
         IN  <<a>> \o PlanFrom(i + 1, proposals, reserved)

optimize_distribution(proposals, b) ==
    LET assignments == PlanFrom(1, proposals, InitialCapacity(b))
    IN  [assignments |-> assignments,
         timeline |-> [total_hours |-> SumHours(assignments)]]

(***************************************************************************)
(* TessAgent.coordinate_dependencies.                                      *)
(***************************************************************************)
\* one "" (the missing task_id) per assignment of the list that passes the test
EmptyIds(assignments, test(_)) ==
    [i \in 1..Len(SelectSeq(assignments, test)) |-> ""]

_find_backend_tasks(assignments) ==
    EmptyIds(assignments, LAMBDA a : TaskFacts[a.task].backend)

_find_component_tasks(assignments) ==
    EmptyIds(assignments, LAMBDA a : TaskFacts[a.task].component)

WithDependency(a, assignments) ==
    LET a1 == IF TaskFacts[a.task].bridge_or_api
              THEN ("depends_on" :> _find_backend_tasks(assignments)) @@ a
              ELSE a
    IN  IF TaskFacts[a.task].integration
        THEN ("depends_on" :> _find_component_tasks(assignments)) @@ a1
        ELSE a1

HasDeps(a) == Get(a, "depends_on", <<>>) # <<>>

_topological_sort(assignments) ==
    SelectSeq(assignments, LAMBDA a : ~HasDeps(a))
        \o SelectSeq(assignments, LAMBDA a : HasDeps(a))

coordinate_dependencies(assignments) ==
    _topological_sort([i \in 1..Len(assignments) |->
                          WithDependency(assignments[i], assignments)])

(***************************************************************************)
(* CouncilConvening._validate_deliberation_wellness and the estimate.      *)
(***************************************************************************)
WORKLOAD_CEILING == 40

\* a faulty gate that already rejects a plan of exactly 40 hours; C23 fails with it
_validate_deliberation_wellness_at_ceiling(assignments, b) ==
    LET overloaded == SelectSeq(assignments, LAMBDA a : ~can_accept_task(b[a.agent]))
        overload == [i \in 1..Len(overloaded) |->
                        [type |-> "agent_overload", agent |-> overloaded[i].agent]]
        heavy == IF SumHours(assignments) >= WORKLOAD_CEILING
                 THEN <<[type |-> "heavy_workload"]>> ELSE <<>>
        concerns == overload \o heavy
    IN  [approved |-> concerns = <<>>, concerns |-> concerns]

_validate_deliberation_wellness(assignments, b) ==
    LET overloaded == SelectSeq(assignments, LAMBDA a : ~can_accept_task(b[a.agent]))
        overload == [i \in 1..Len(overloaded) |->
                        [type |-> "agent_overload", agent |-> overloaded[i].agent]]
        heavy == IF SumHours(assignments) > WORKLOAD_CEILING
                 THEN <<[type |-> "heavy_workload"]>> ELSE <<>>
        concerns == overload \o heavy
    IN  [approved |-> concerns = <<>>, concerns |-> concerns]

RECURSIVE EstimateTotal(_)
RECURSIVE SumHoursOf(_)
\* HexAgent.calculate_accrual_estimate: hours = assignment.get("estimated_duration", 0)
EstimateHours(assignment) == Get(assignment, "estimated_duration", 0)
EstimateNectar(assignment) ==
    IF Contains("cross", Lower(Get(assignment, "description", "")))
    THEN EstimateHours(assignment) * 10 * 2
    ELSE EstimateHours(assignment) * 10
EstimateTotal(assignments) ==
    IF assignments = <<>> THEN 0
    ELSE EstimateNectar(Head(assignments)) + EstimateTotal(Tail(assignments))

SumHoursOf(assignments) ==
    IF assignments = <<>> THEN 0
    ELSE EstimateHours(Head(assignments)) + SumHoursOf(Tail(assignments))

calculate_accrual_estimate(assignments) ==
    LET named == {assignments[i].agent : i \in 1..Len(assignments)}
        of(a) == SelectSeq(assignments, LAMBDA x : x.agent = a)
    IN  [by_agent |-> [a \in named |->
                          [hours |-> SumHoursOf(of(a)), nectar |-> EstimateTotal(of(a))]],
         total_nectar |-> EstimateTotal(assignments)]

(***************************************************************************)
(* TessAgent.execute_deployment: one Task per assignment of the plan,      *)
(* assigned and started where the agent's gate admits it.                  *)
(***************************************************************************)
\* the state and the result after one assignment
DeployOne(st, assignment) ==
    LET agent_name == assignment.agent
        id == st.clock
        task == NewTask(assignment.task, Get(assignment, "repo", "unknown"),
                        Get(assignment, "estimated_hours", 4))
    IN  IF agent_name \notin Agents
        THEN [st |-> st,
              result |-> [assignment |-> assignment, status |-> "failed"]]
        ELSE IF assign_task_accepts(st, agent_name)
        THEN [st |-> [start_task(assign_task(st, agent_name, id, task), agent_name, id)
                         EXCEPT !.clock = @ + 1],
              result |-> [assignment |-> assignment, status |-> "deployed",
                          task_id |-> id, agent |-> agent_name]]
        ELSE [st |-> st,
              result |-> [assignment |-> assignment, status |-> "queued",
                          reason |-> "agent_at_capacity", agent |-> agent_name]]

RECURSIVE execute_deployment_aborting(_, _)
\* a faulty execute_deployment that gives up at the first assignment that was not
\* deployed; C24 fails with it
execute_deployment_aborting(assignments, st) ==
    IF assignments = <<>> THEN [st |-> st, results |-> <<>>]
    ELSE LET one == DeployOne(st, Head(assignments))
         IN  IF one.result.status # "deployed"
             THEN [st |-> one.st, results |-> <<one.result>>]
             ELSE LET more == execute_deployment_aborting(Tail(assignments), one.st)
                  IN  [st |-> more.st, results |-> <<one.result>> \o more.results]

RECURSIVE execute_deployment(_, _)
\* [st, results] after the assignments, handled in order
execute_deployment(assignments, st) ==
    IF assignments = <<>> THEN [st |-> st, results |-> <<>>]
    ELSE LET one == DeployOne(st, Head(assignments))
             more == execute_deployment(Tail(assignments), one.st)
         IN  [st |-> more.st, results |-> <<one.result>> \o more.results]

(***************************************************************************)
(* DiligenceLedger.  NECTAR is kept in units of 1/100 and the multiplier   *)
(* in units of 1/1000: hours * 10.0 * multiplier = hours * thousandths.    *)
(***************************************************************************)
\* multiplier = quality_score, times 2.0 / 1.5 / 2.0 / 1.3 for the flags set
Multiplier(quality_tenths, flags) ==
    LET m0 == quality_tenths * 100
        m1 == IF "tested" \in flags THEN m0 * 2 ELSE m0
        m2 == IF "wellness_approved" \in flags THEN (m1 * 15) \div 10 ELSE m1
        m3 == IF "cross_repo" \in flags THEN m2 * 2 ELSE m2
    IN  IF "documented" \in flags THEN (m3 * 13) \div 10 ELSE m3

NewTotals == [total_nectar |-> 0, total_hours |-> 0, tasks_completed |-> 0]

\* a faulty record_completion that sets the totals to the last accrual instead of
\* adding it; C9 fails with it
record_completion_overwriting(ledger, agent_name, task_id, hours_worked, quality_tenths, flags) ==
    LET multiplier == Multiplier(quality_tenths, flags)
        nectar == hours_worked * multiplier
        record == [agent_name |-> agent_name, task_id |-> task_id,
                   hours_worked |-> hours_worked,
                   quality_multiplier |-> multiplier, nectar_accrued |-> nectar]
        new == [total_nectar |-> nectar, total_hours |-> hours_worked,
                tasks_completed |-> 1]
    IN  [records |-> Append(ledger.records, record),
         agent_totals |-> [a \in (DOMAIN ledger.agent_totals) \cup {agent_name} |->
                              IF a = agent_name THEN new ELSE ledger.agent_totals[a]]]

\* a faulty record_completion that puts the new record first; C10 fails with it
record_completion_prepending(ledger, agent_name, task_id, hours_worked, quality_tenths, flags) ==
    LET multiplier == Multiplier(quality_tenths, flags)
        nectar == hours_worked * multiplier
        record == [agent_name |-> agent_name, task_id |-> task_id,
                   hours_worked |-> hours_worked,
                   quality_multiplier |-> multiplier, nectar_accrued |-> nectar]
        old == Get(ledger.agent_totals, agent_name, NewTotals)
        new == [total_nectar |-> old.total_nectar + nectar,
                total_hours |-> old.total_hours + hours_worked,
                tasks_completed |-> old.tasks_completed + 1]
    IN  [records |-> <<record>> \o ledger.records,
         agent_totals |-> [a \in (DOMAIN ledger.agent_totals) \cup {agent_name} |->
                              IF a = agent_name THEN new ELSE ledger.agent_totals[a]]]

\* the ledger [records, agent_totals] after record_completion's append and totals update
record_completion(ledger, agent_name, task_id, hours_worked, quality_tenths, flags) ==
    LET multiplier == Multiplier(quality_tenths, flags)
        nectar == hours_worked * multiplier
        record == [agent_name |-> agent_name, task_id |-> task_id,
                   hours_worked |-> hours_worked,
                   quality_multiplier |-> multiplier, nectar_accrued |-> nectar]
        old == Get(ledger.agent_totals, agent_name, NewTotals)
        new == [total_nectar |-> old.total_nectar + nectar,
                total_hours |-> old.total_hours + hours_worked,
                tasks_completed |-> old.tasks_completed + 1]
    IN  [records |-> Append(ledger.records, record),
         agent_totals |-> [a \in (DOMAIN ledger.agent_totals) \cup {agent_name} |->
                              IF a = agent_name THEN new ELSE ledger.agent_totals[a]]]

\* The file at ledger_path: absent, a JSON document (data: its top-level object), or
\* text that json.load rejects (a document cut short by a failed write).
JsonDocument(data) == [kind |-> "json", data |-> data]
Partial == [kind |-> "partial"]

\* the fields of NectarAccrualRecord kept in the model
RecordFields == {"agent_name", "task_id", "hours_worked", "quality_multiplier",
                 "nectar_accrued"}

\* dataclasses.asdict(r): the dict of the record's fields
asdict(r) == [f \in DOMAIN r |-> r[f]]

\* [asdict(r) for r in rs]
AsDicts(rs) == [i \in 1..Len(rs) |-> asdict(rs[i])]

\* NectarAccrualRecord(**r) raises TypeError unless r has exactly the fields
Constructible(r) == DOMAIN r = RecordFields

\* a faulty _save that writes the totals but an empty record list; C11 fails with it
_save_without_records(ledger, old_disk, outcome) ==
    CASE outcome = "saved" -> JsonDocument([records |-> <<>>,
                                            totals |-> ledger.agent_totals])
      [] outcome = "open_failed" -> old_disk
      [] outcome = "write_failed" -> Partial

\* _save: the document written for the ledger in memory.  open(path, 'w') truncates
\* the file before json.dump writes it, so a write that fails part-way leaves a
\* partial document; a failing open leaves the file as it was.
SaveOutcomes == {"saved", "open_failed", "write_failed"}
_save(ledger, old_disk, outcome) ==
    CASE outcome = "saved" -> JsonDocument([records |-> AsDicts(ledger.records),
                                            totals |-> ledger.agent_totals])
      [] outcome = "open_failed" -> old_disk
      [] outcome = "write_failed" -> Partial

\* _load: what a newly constructed ledger holds, given the file at its path: the
\* "records" and "totals" of a JSON document (empty where the key is missing), and
\* nothing when there is no file or when reading it raises
_load(d) ==
    IF d.kind = "json"
    THEN LET rs == Get(d.data, "records", <<>>)
         IN  IF \A i \in 1..Len(rs) : Constructible(rs[i])
             THEN [records |-> [i \in 1..Len(rs) |-> rs[i]],
                   agent_totals |-> Get(d.data, "totals", <<>>)]
             ELSE [records |-> <<>>, agent_totals |-> <<>>]
    ELSE [records |-> <<>>, agent_totals |-> <<>>]

Absent == [kind |-> "absent"]
Ledger == [records |-> records, agent_totals |-> agent_totals]

(***************************************************************************)
(* Bounds and inputs.                                                      *)
(***************************************************************************)
MaxTasks == 2        \* tasks created over a run (the clock's readings used as ids)
MaxRecords == 1      \* ledger records appended over a run
MaxAgentTasks == 4   \* tasks created over a run of the agents' own operations
MaxDebt == 1         \* completions explored beyond the tasks an agent holds
MaxLedgerRecords == 3  \* records appended over a run of the ledger's own operations

ElapsedHours == {4}              \* completed_at - started_at, in hours
HoursWorked == {2}               \* hours_worked as reported with a completion
QualityTenths == {10}            \* quality_score 1.0
AgentNames == Agents \cup {"sofie"}   \* names a caller may give; "sofie" is no agent
TaskIds == 0..MaxTasks

\* what the last call was, what it returned ("raised": it raised) and the values it
\* assigned to the phase, in order
Ret(op, ret, path) == [op |-> op, ret |-> ret, path |-> path]

(***************************************************************************)
(* CouncilGitHubClient as constructed with its defaults.                   *)
(***************************************************************************)
\* workspace is Path("./workspace"), which str() gives back as "workspace"
NewClient == [github_token |-> None, workspace |-> "workspace", owner |-> "DudeAdrian"]

(***************************************************************************)
(* The state after CouncilConvening() on a machine with no ledger file.    *)
(***************************************************************************)
Init ==
    /\ phase = "idle"
    /\ current_briefing = None
    /\ deliberation_record = None
    /\ current_proposal = None
    /\ sofie_briefing = [a \in Agents |-> None]
    /\ current_meeting = None
    /\ biometrics = [a \in Agents |-> NewBiometrics]
    /\ tasks = [a \in Agents |-> <<>>]
    /\ current_task = [a \in Agents |-> None]
    /\ resting = [a \in Agents |-> {}]
    /\ clock = 0
    /\ records = <<>>
    /\ agent_totals = <<>>
    /\ disk = Absent
    /\ hex_ledger = <<>>
    /\ accrual_history = <<>>
    /\ client = NewClient
    /\ last = Ret("init", "ok", <<>>)

(***************************************************************************)
(* CouncilConvening.receive_briefing                                       *)
(***************************************************************************)
\* the briefing as stored: the default notice is added when none is given
WithNotice(b) ==
    IF Get(b, "protected_notice", "") = ""
    THEN ("protected_notice" :> DEFAULT_NOTICE) @@ b
    ELSE b

receive_briefing(sofie_briefing_in) ==
    /\ phase' = "receiving_briefing"
    /\ IF ~Truthy(sofie_briefing_in)
       THEN /\ last' = Ret("receive_briefing", "error", <<"receiving_briefing">>)
            /\ UNCHANGED <<current_briefing, sofie_briefing, current_meeting>>
       ELSE /\ current_briefing' = WithNotice(sofie_briefing_in)
            /\ current_meeting' = [phase |-> "convened",
                                   briefing |-> WithNotice(sofie_briefing_in)]
            /\ sofie_briefing' = [a \in Agents |-> WithNotice(sofie_briefing_in)]
            /\ last' = Ret("receive_briefing", "convened", <<"receiving_briefing">>)
    /\ UNCHANGED <<deliberation_record, current_proposal>>
    /\ UNCHANGED <<agentVars, ledgerVars, client>>

(***************************************************************************)
(* CouncilConvening.deliberate                                             *)
(***************************************************************************)
\* each step's result is bound once, as the code binds it to a local
deliberate ==
    /\ phase' = "deliberating"
    /\ IF sofie_briefing[AgentOrder[1]] = None
       THEN \* briefing.get on None raises AttributeError
            /\ last' = Ret("deliberate", "raised", <<"deliberating">>)
            /\ UNCHANGED deliberation_record
       ELSE \E deliberation \in {facilitate_deliberation(sofie_briefing[AgentOrder[1]],
                                                         biometrics)} :
            \E optimized \in {optimize_distribution(deliberation.proposals, biometrics)} :
            \E with_dependencies \in {coordinate_dependencies(optimized.assignments)} :
            \E wellness_check \in {_validate_deliberation_wellness(with_dependencies,
                                                                   biometrics)} :
                IF ~wellness_check.approved
                THEN /\ deliberation_record' =
                            [status |-> "vetoed", by |-> "aura",
                             reason |-> [authority |-> "aura_absolute_veto",
                                         reasons |-> wellness_check.concerns,
                                         can_override |-> FALSE]]
                     /\ last' = Ret("deliberate", "blocked", <<"deliberating">>)
                ELSE /\ deliberation_record' =
                            [status |-> "complete",
                             assignments |-> with_dependencies,
                             timeline |-> optimized.timeline,
                             wellness_approved |-> TRUE,
                             nectar_estimate |->
                                 calculate_accrual_estimate(with_dependencies)]
                     /\ last' = Ret("deliberate", "deliberated", <<"deliberating">>)
    /\ UNCHANGED <<current_briefing, current_proposal, sofie_briefing, current_meeting>>
    /\ UNCHANGED <<agentVars, ledgerVars, client>>

(***************************************************************************)
(* CouncilConvening.generate_proposal                                      *)
(***************************************************************************)
generate_proposal ==
    /\ IF deliberation_record = None
       THEN /\ phase' = "proposing"
            /\ last' = Ret("generate_proposal", "error", <<"proposing">>)
            /\ UNCHANGED current_proposal
       ELSE IF "assignments" \notin DOMAIN deliberation_record
       THEN \* a vetoed record has no "assignments": KeyError
            /\ phase' = "proposing"
            /\ last' = Ret("generate_proposal", "raised", <<"proposing">>)
            /\ UNCHANGED current_proposal
       ELSE /\ current_proposal' =
                   [status |-> "proposed",
                    council_plan |->
                        [assignments |-> deliberation_record.assignments,
                         total_timeline |-> deliberation_record.timeline,
                         total_diligence_accrual |-> deliberation_record.nectar_estimate,
                         wellness_validation |-> "approved_by_aura"],
                    awaiting_chief_architect_authorization |-> TRUE]
            /\ phase' = "awaiting_authorization"
            /\ last' = Ret("generate_proposal", "proposed",
                         <<"proposing", "awaiting_authorization">>)
    /\ UNCHANGED <<current_briefing, deliberation_record, sofie_briefing, current_meeting>>
    /\ UNCHANGED <<agentVars, ledgerVars, client>>

(***************************************************************************)
(* CouncilConvening.authorize                                              *)
(***************************************************************************)
\* a faulty authorize whose rejection stands the agents down; C8 fails with it
authorize_resetting(authorized) ==
    /\ IF current_proposal = None
       THEN /\ last' = Ret("authorize", "error", <<>>)
            /\ UNCHANGED <<phase, current_proposal, biometrics>>
       ELSE IF authorized
       THEN /\ current_proposal' =
                   ("authorized_by" :> "chief_architect")
                   @@ [current_proposal EXCEPT
                          !.awaiting_chief_architect_authorization = FALSE]
            /\ last' = Ret("authorize", "authorized", <<>>)
            /\ UNCHANGED <<phase, biometrics>>
       ELSE /\ current_proposal' = ("rejected_at" :> "now") @@ current_proposal
            /\ phase' = "idle"
            /\ biometrics' = [a \in Agents |->
                                 [biometrics[a] EXCEPT !.current_status = "idle"]]
            /\ last' = Ret("authorize", "rejected", <<"idle">>)
    /\ UNCHANGED <<current_briefing, deliberation_record, sofie_briefing, current_meeting>>
    /\ UNCHANGED <<tasks, current_task, resting, clock, ledgerVars, client>>

\* proposal_id is never read
authorize(authorized) ==
    /\ IF current_proposal = None
       THEN /\ last' = Ret("authorize", "error", <<>>)
            /\ UNCHANGED <<phase, current_proposal>>
       ELSE IF authorized
       THEN /\ current_proposal' =
                   ("authorized_by" :> "chief_architect")
                   @@ [current_proposal EXCEPT
                          !.awaiting_chief_architect_authorization = FALSE]
            /\ last' = Ret("authorize", "authorized", <<>>)
            /\ UNCHANGED phase
       ELSE /\ current_proposal' = ("rejected_at" :> "now") @@ current_proposal
            /\ phase' = "idle"
            /\ last' = Ret("authorize", "rejected", <<"idle">>)
    /\ UNCHANGED <<current_briefing, deliberation_record, sofie_briefing, current_meeting>>
    /\ UNCHANGED <<agentVars, ledgerVars, client>>

(***************************************************************************)
(* CouncilConvening.deploy                                                 *)
(***************************************************************************)
deploy ==
    IF current_proposal = None \/ "authorized_by" \notin DOMAIN current_proposal
    THEN /\ phase' = "deploying"
         /\ last' = Ret("deploy", "error", <<"deploying">>)
         /\ UNCHANGED <<current_briefing, deliberation_record, current_proposal,
                        sofie_briefing, current_meeting>>
         /\ UNCHANGED <<agentVars, ledgerVars, client>>
    ELSE \E deployment \in {execute_deployment(current_proposal.council_plan.assignments,
                                                AgentState)} :
             /\ deployment.st.clock <= MaxTasks
             /\ biometrics' = deployment.st.biometrics
             /\ tasks' = deployment.st.tasks
             /\ current_task' = deployment.st.current_task
             /\ clock' = deployment.st.clock
             /\ current_meeting' = [current_meeting EXCEPT !.phase = "deployed"]
             /\ phase' = "complete"
             /\ last' = Ret("deploy", "deployed", <<"deploying", "complete">>)
             /\ UNCHANGED <<current_briefing, deliberation_record, current_proposal,
                            sofie_briefing, resting>>
             /\ UNCHANGED <<ledgerVars, client>>

(***************************************************************************)
(* CouncilConvening.record_task_completion                                 *)
(***************************************************************************)
\* a faulty record_task_completion that credits the ledger before it looks the task
\* up; C7 fails with it
record_task_completion_crediting(agent_name, task_id, hours_worked, quality_tenths) ==
    IF agent_name \notin Agents
    THEN /\ last' = Ret("record_task_completion", "unknown_agent", <<>>)
         /\ UNCHANGED <<ceremonyVars, agentVars, ledgerVars, client>>
    ELSE \E outcome \in SaveOutcomes :
         \E ledger \in {record_completion(Ledger, agent_name, task_id, hours_worked,
                                          quality_tenths, {})} :
             /\ Len(records) < MaxRecords
             /\ records' = ledger.records
             /\ agent_totals' = ledger.agent_totals
             /\ disk' = _save(ledger, disk, outcome)
             /\ IF task_id \notin DOMAIN tasks[agent_name]
                THEN /\ last' = Ret("record_task_completion", "task_not_found", <<>>)
                     /\ UNCHANGED <<biometrics, tasks, current_task>>
                ELSE \E elapsed \in ElapsedHours :
                     \E st \in {complete_task(AgentState, agent_name, task_id, elapsed)} :
                         /\ biometrics' = st.biometrics
                         /\ tasks' = st.tasks
                         /\ current_task' = st.current_task
                         /\ last' = Ret("record_task_completion", "completed", <<>>)
             /\ UNCHANGED <<ceremonyVars, resting, clock, hexVars, client>>

\* elapsed (completed_at - started_at) and the outcome of the ledger's write are
\* the environment's, not the caller's
RecordTaskCompletion(agent_name, task_id, hours_worked, quality_tenths) ==
    IF agent_name \notin Agents
    THEN /\ last' = Ret("record_task_completion", "unknown_agent", <<>>)
         /\ UNCHANGED <<ceremonyVars, agentVars, ledgerVars, client>>
    ELSE IF task_id \notin DOMAIN tasks[agent_name]
    THEN /\ last' = Ret("record_task_completion", "task_not_found", <<>>)
         /\ UNCHANGED <<ceremonyVars, agentVars, ledgerVars, client>>
    ELSE \E elapsed \in ElapsedHours, outcome \in SaveOutcomes :
         \E st \in {complete_task(AgentState, agent_name, task_id, elapsed)} :
         \E ledger \in {record_completion(Ledger, agent_name, task_id, hours_worked,
                                          quality_tenths, {})} :
             /\ biometrics' = st.biometrics
             /\ tasks' = st.tasks
             /\ current_task' = st.current_task
             /\ records' = ledger.records
             /\ agent_totals' = ledger.agent_totals
             /\ disk' = _save(ledger, disk, outcome)
             /\ last' = Ret("record_task_completion", "completed", <<>>)
             /\ UNCHANGED <<ceremonyVars, resting, clock, hexVars, client>>

\* the call reaches the ledger: the agent is known and holds the task
Credits(agent_name, task_id) ==
    agent_name \in Agents /\ task_id \in DOMAIN tasks[agent_name]

\* record_task_completion, explored while the ledger holds fewer than MaxRecords records
record_task_completion(agent_name, task_id, hours_worked, quality_tenths) ==
    /\ Credits(agent_name, task_id) => Len(records) < MaxRecords
    /\ RecordTaskCompletion(agent_name, task_id, hours_worked, quality_tenths)

(***************************************************************************)
(* The ceremony as the API server drives it: any handler at any time.      *)
(***************************************************************************)
Next ==
    \/ \E b \in Briefings : receive_briefing(b)
    \/ deliberate
    \/ generate_proposal
    \/ \E authorized \in BOOLEAN : authorize(authorized)
    \/ deploy
    \/ \E agent_name \in AgentNames, task_id \in TaskIds, hours_worked \in HoursWorked,
          quality_tenths \in QualityTenths :
           record_task_completion(agent_name, task_id, hours_worked, quality_tenths)

Spec == Init /\ [][Next]_vars

(***************************************************************************)
(* The agents' own operations, called directly: BaseAgent.assign_task,     *)
(* start_task, complete_task, take_break, rest and TessAgent's             *)
(* execute_deployment.  take_break and rest suspend in asyncio.sleep, so   *)
(* each is two steps with other calls free to run in between.              *)
(***************************************************************************)
Workers == {"spark"}             \* the agent these runs call
Titles == {"design UI component"}

\* the assignment lists execute_deployment is handed
Plans ==
    {<<[agent |-> "spark", task |-> "design UI component", estimated_hours |-> 4,
        repo |-> "sandironratio-node"]>>,
     <<[agent |-> "spark", task |-> "design UI component", estimated_hours |-> 4,
        repo |-> "sandironratio-node"],
       [agent |-> "spark", task |-> "design UI component", status |-> "queued",
        reason |-> "waiting_for_capacity"]>>,
     <<[agent |-> "sofie", task |-> "design UI component"]>>}

AssignTask(a, title) ==
    /\ clock < MaxAgentTasks
    /\ IF assign_task_accepts(AgentState, a)
       THEN \E st \in {assign_task(AgentState, a, clock, NewTask(title, "unknown", 4))} :
               /\ biometrics' = st.biometrics
               /\ tasks' = st.tasks
               /\ clock' = clock + 1
       ELSE UNCHANGED <<biometrics, tasks, clock>>
    /\ UNCHANGED <<current_task, resting, ceremonyVars, ledgerVars, client, last>>

StartTask(a, id) ==
    /\ IF id \notin DOMAIN tasks[a]
       THEN UNCHANGED <<biometrics, tasks, current_task>>
       ELSE \E st \in {start_task(AgentState, a, id)} :
               /\ biometrics' = st.biometrics
               /\ tasks' = st.tasks
               /\ current_task' = st.current_task
    /\ UNCHANGED <<clock, resting, ceremonyVars, ledgerVars, client, last>>

CompleteTask(a, id) ==
    /\ IF id \notin DOMAIN tasks[a]
       THEN UNCHANGED <<biometrics, tasks, current_task>>
       ELSE \E elapsed \in ElapsedHours :
            \E st \in {complete_task(AgentState, a, id, elapsed)} :
               /\ st.biometrics[a].concurrent_tasks >= -MaxDebt
               /\ biometrics' = st.biometrics
               /\ tasks' = st.tasks
               /\ current_task' = st.current_task
    /\ UNCHANGED <<clock, resting, ceremonyVars, ledgerVars, client, last>>

Deployment(plan) ==
    \E deployment \in {execute_deployment(plan, AgentState)} :
        /\ deployment.st.clock <= MaxAgentTasks
        /\ biometrics' = deployment.st.biometrics
        /\ tasks' = deployment.st.tasks
        /\ current_task' = deployment.st.current_task
        /\ clock' = deployment.st.clock
        /\ UNCHANGED <<resting, ceremonyVars, ledgerVars, client, last>>

\* take_break up to its sleep
TakeBreakBegin(a) ==
    /\ "break" \notin resting[a]
    /\ biometrics' = [biometrics EXCEPT ![a].current_status = "recovery"]
    /\ resting' = [resting EXCEPT ![a] = @ \cup {"break"}]
    /\ UNCHANGED <<tasks, current_task, clock, ceremonyVars, ledgerVars, client, last>>

\* take_break from its sleep on
take_break_resume(b) ==
    LET relieved == [b EXCEPT !.stress_level = Max(0, @ - BREAK_RELIEF),
                              !.cognitive_load = Max(0, @ - BREAK_RELIEF)]
    IN  IF can_accept_task(relieved)
        THEN [relieved EXCEPT !.current_status = "idle"]
        ELSE relieved

TakeBreakEnd(a) ==
    /\ "break" \in resting[a]
    /\ biometrics' = [biometrics EXCEPT ![a] = take_break_resume(@)]
    /\ resting' = [resting EXCEPT ![a] = @ \ {"break"}]
    /\ UNCHANGED <<tasks, current_task, clock, ceremonyVars, ledgerVars, client, last>>

\* rest up to its sleep
RestBegin(a) ==
    /\ "rest" \notin resting[a]
    /\ biometrics' = [biometrics EXCEPT ![a].current_status = "recovery"]
    /\ resting' = [resting EXCEPT ![a] = @ \cup {"rest"}]
    /\ UNCHANGED <<tasks, current_task, clock, ceremonyVars, ledgerVars, client, last>>

\* rest from its sleep on
rest_resume(b) == [b EXCEPT !.stress_level = 0, !.cognitive_load = 0]

RestEnd(a) ==
    /\ "rest" \in resting[a]
    /\ biometrics' = [biometrics EXCEPT ![a] = rest_resume(@)]
    /\ resting' = [resting EXCEPT ![a] = @ \ {"rest"}]
    /\ UNCHANGED <<tasks, current_task, clock, ceremonyVars, ledgerVars, client, last>>

NextAgent ==
    \/ \E a \in Workers, title \in Titles : AssignTask(a, title)
    \/ \E a \in Workers, id \in 0..MaxAgentTasks : StartTask(a, id)
    \/ \E a \in Workers, id \in 0..MaxAgentTasks : CompleteTask(a, id)
    \/ \E plan \in Plans : Deployment(plan)
    \/ \E a \in Workers : TakeBreakBegin(a)
    \/ \E a \in Workers : TakeBreakEnd(a)
    \/ \E a \in Workers : RestBegin(a)
    \/ \E a \in Workers : RestEnd(a)

SpecAgent == Init /\ [][NextAgent]_vars

(***************************************************************************)
(* The ledger's own operations, called directly on a DiligenceLedger, and  *)
(* the construction of a new one over the file the last one left.          *)
(***************************************************************************)
LedgerAgents == {"veda", "spark"}
LedgerTasks == {0}
FlagSets == {{}, {"tested"}, {"wellness_approved", "documented"}}

\* sum of nectar_accrued, and the count, over the records of one agent
RECURSIVE NectarOf(_, _)
NectarOf(rs, a) ==
    IF rs = <<>> THEN 0
    ELSE (IF Head(rs).agent_name = a THEN Head(rs).nectar_accrued ELSE 0)
         + NectarOf(Tail(rs), a)
CountOf(rs, a) == Len(SelectSeq(rs, LAMBDA r : r.agent_name = a))

\* a faulty record_completion that lets a failing save propagate: the call raises and
\* the ledger in memory is as before; C13 fails with it
RecordCompletion_raising(agent_name, task, hours_worked, quality_tenths, flags) ==
    /\ Len(records) < MaxLedgerRecords
    /\ \E outcome \in SaveOutcomes :
       \E ledger \in {record_completion(Ledger, agent_name, task, hours_worked,
                                        quality_tenths, flags)} :
           /\ records' = IF outcome = "saved" THEN ledger.records ELSE records
           /\ agent_totals' = IF outcome = "saved" THEN ledger.agent_totals
                              ELSE agent_totals
           /\ disk' = _save(ledger, disk, outcome)
           /\ last' = Ret("record_completion",
                          IF outcome = "saved"
                          THEN [nectar_accrued |-> hours_worked * Multiplier(quality_tenths, flags),
                                total_accrued |-> ledger.agent_totals[agent_name].total_nectar]
                          ELSE [raised |-> "OSError"],
                          <<>>)
    /\ UNCHANGED <<hexVars, client, ceremonyVars, agentVars>>

\* record_completion on the ledger, with the outcome of its save
RecordCompletion(agent_name, task, hours_worked, quality_tenths, flags) ==
    /\ Len(records) < MaxLedgerRecords
    /\ \E outcome \in SaveOutcomes :
       \E ledger \in {record_completion(Ledger, agent_name, task, hours_worked,
                                        quality_tenths, flags)} :
           /\ records' = ledger.records
           /\ agent_totals' = ledger.agent_totals
           /\ disk' = _save(ledger, disk, outcome)
           /\ last' = Ret("record_completion",
                          [nectar_accrued |-> hours_worked * Multiplier(quality_tenths, flags),
                           total_accrued |-> ledger.agent_totals[agent_name].total_nectar],
                          <<>>)
    /\ UNCHANGED <<hexVars, client, ceremonyVars, agentVars>>

\* what get_agent_summary returns
get_agent_summary(ledger, agent_name) ==
    IF agent_name \notin DOMAIN ledger.agent_totals
    THEN [agent |-> agent_name, total_nectar |-> 0, total_hours |-> 0,
          tasks_completed |-> 0]
    ELSE [agent |-> agent_name,
          total_nectar |-> ledger.agent_totals[agent_name].total_nectar,
          total_hours |-> ledger.agent_totals[agent_name].total_hours,
          tasks_completed |-> ledger.agent_totals[agent_name].tasks_completed,
          recent_accruals |-> CountOf(ledger.records, agent_name)]

RECURSIVE SumTotals(_, _)
\* sum(t[field] for t in agent_totals.values())
SumTotals(totals, field) ==
    IF DOMAIN totals = {} THEN 0
    ELSE LET a == CHOOSE x \in DOMAIN totals : TRUE
         IN  totals[a][field] + SumTotals([x \in DOMAIN totals \ {a} |-> totals[x]], field)

\* what get_genesis_snapshot returns
get_genesis_snapshot(ledger) ==
    [total_supply |-> SumTotals(ledger.agent_totals, "total_nectar"),
     allocations |-> [a \in DOMAIN ledger.agent_totals |->
                         [amount |-> ledger.agent_totals[a].total_nectar,
                          hours_contributed |-> ledger.agent_totals[a].total_hours,
                          tasks_completed |-> ledger.agent_totals[a].tasks_completed]]]

\* what get_council_summary returns
get_council_summary(ledger) ==
    [total_nectar_accrued |-> SumTotals(ledger.agent_totals, "total_nectar"),
     total_hours_worked |-> SumTotals(ledger.agent_totals, "total_hours"),
     total_tasks_completed |-> SumTotals(ledger.agent_totals, "tasks_completed"),
     agent_count |-> Cardinality(DOMAIN ledger.agent_totals)]

GetAgentSummary(agent_name) ==
    /\ last' = Ret("get_agent_summary", get_agent_summary(Ledger, agent_name), <<>>)
    /\ UNCHANGED <<ceremonyVars, agentVars, ledgerVars, client>>

GetGenesisSnapshot ==
    /\ last' = Ret("get_genesis_snapshot", get_genesis_snapshot(Ledger), <<>>)
    /\ UNCHANGED <<ceremonyVars, agentVars, ledgerVars, client>>

GetCouncilSummary ==
    /\ last' = Ret("get_council_summary", get_council_summary(Ledger), <<>>)
    /\ UNCHANGED <<ceremonyVars, agentVars, ledgerVars, client>>

\* DiligenceLedger(): a new ledger over the file at the path, in a new process
Construct ==
    /\ records' = _load(disk).records
    /\ agent_totals' = _load(disk).agent_totals
    /\ last' = Ret("DiligenceLedger", "constructed", <<>>)
    /\ UNCHANGED <<disk, hexVars, client, ceremonyVars, agentVars>>

NextLedger ==
    \/ \E agent_name \in LedgerAgents, task \in LedgerTasks, hours_worked \in HoursWorked,
          quality_tenths \in QualityTenths, flags \in FlagSets :
           RecordCompletion(agent_name, task, hours_worked, quality_tenths, flags)
    \/ \E agent_name \in LedgerAgents : GetAgentSummary(agent_name)
    \/ GetGenesisSnapshot
    \/ GetCouncilSummary
    \/ Construct

SpecLedger == Init /\ [][NextLedger]_vars

(***************************************************************************)
(* HexAgent keeps a ledger of its own and, by default, in the same file:   *)
(* both constructors default ledger_path to ./data/diligence_ledger.json.  *)
(***************************************************************************)
MaxHexAccruals == 2   \* accruals HexAgent records over a run

\* _calculate_multiplier: the same product, rounded to two decimals
_calculate_multiplier(quality_tenths, flags) ==
    ((Multiplier(quality_tenths, flags) + 5) \div 10) * 10

\* NectarAccrual(...) with __post_init__: nectar_accrued = hours * base_rate * multiplier
NectarAccrual(agent_name, task_id, hours_worked, multiplier) ==
    [agent_name |-> agent_name, task_id |-> task_id, hours_worked |-> hours_worked,
     quality_multiplier |-> multiplier, nectar_accrued |-> hours_worked * multiplier,
     blockchain_eligible |-> TRUE]

NewHexStats == [accrued |-> 0, hours_worked |-> 0, tasks_completed |-> 0, quality_avg |-> 0]

\* HexAgent.record_completion: [ledger, accrual_history] after the call; quality_avg is
\* the running mean of the multipliers, here in whole thousandths
hex_record_completion(ledger, history, agent_name, task_id, hours_worked, quality_tenths, flags) ==
    LET multiplier == _calculate_multiplier(quality_tenths, flags)
        accrual == NectarAccrual(agent_name, task_id, hours_worked, multiplier)
        old == Get(ledger, agent_name, NewHexStats)
        task_count == old.tasks_completed + 1
        new == [accrued |-> old.accrued + accrual.nectar_accrued,
                hours_worked |-> old.hours_worked + hours_worked,
                tasks_completed |-> task_count,
                quality_avg |-> (old.quality_avg * (task_count - 1) + multiplier)
                                   \div task_count]
    IN  [ledger |-> [a \in (DOMAIN ledger) \cup {agent_name} |->
                        IF a = agent_name THEN new ELSE ledger[a]],
         accrual_history |-> Append(history, accrual)]

\* _save_ledger: the same path, opened the same way, with the keys "ledger" and "history"
_save_ledger(hex, old_disk, outcome) ==
    CASE outcome = "saved" -> JsonDocument([ledger |-> hex.ledger,
                                            history |-> AsDicts(hex.accrual_history)])
      [] outcome = "open_failed" -> old_disk
      [] outcome = "write_failed" -> Partial

\* _load_ledger: "ledger" and "history" of the document, empty where the key is missing
\* or reading raises
_load_ledger(d) ==
    IF d.kind = "json"
    THEN LET hs == Get(d.data, "history", <<>>)
         IN  [ledger |-> Get(d.data, "ledger", <<>>),
              accrual_history |-> [i \in 1..Len(hs) |-> hs[i]]]
    ELSE [ledger |-> <<>>, accrual_history |-> <<>>]

HexRecordCompletion(agent_name, task, hours_worked, quality_tenths, flags) ==
    /\ Len(accrual_history) < MaxHexAccruals
    /\ \E outcome \in SaveOutcomes :
       \E hex \in {hex_record_completion(hex_ledger, accrual_history, agent_name, task,
                                         hours_worked, quality_tenths, flags)} :
           /\ hex_ledger' = hex.ledger
           /\ accrual_history' = hex.accrual_history
           /\ disk' = _save_ledger(hex, disk, outcome)
           /\ last' = Ret("HexAgent.record_completion",
                          [nectar_accrued |-> hours_worked
                                               * _calculate_multiplier(quality_tenths, flags),
                           total_accrued |-> hex.ledger[agent_name].accrued],
                          <<>>)
    /\ UNCHANGED <<records, agent_totals, client, ceremonyVars, agentVars>>

\* HexAgent(): a new agent over the file at the path
HexConstruct ==
    /\ hex_ledger' = _load_ledger(disk).ledger
    /\ accrual_history' = _load_ledger(disk).accrual_history
    /\ last' = Ret("HexAgent", "constructed", <<>>)
    /\ UNCHANGED <<records, agent_totals, disk, client, ceremonyVars, agentVars>>

\* the council's ledger and its Hex agent at work on a machine, each with its default path
NextShared ==
    \/ \E agent_name \in LedgerAgents, task \in LedgerTasks, hours_worked \in HoursWorked,
          quality_tenths \in QualityTenths :
           RecordCompletion(agent_name, task, hours_worked, quality_tenths, {})
    \/ Construct
    \/ \E agent_name \in LedgerAgents, task \in LedgerTasks, hours_worked \in HoursWorked,
          quality_tenths \in QualityTenths, flags \in FlagSets :
           HexRecordCompletion(agent_name, task, hours_worked, quality_tenths, flags)
    \/ HexConstruct

SpecShared == Init /\ [][NextShared]_vars

(***************************************************************************)
(* The ledger with every number a caller can pass: hours_worked and        *)
(* quality_score are floats, and neither record_completion nor             *)
(* record_task_completion nor the TaskCompletion request model checks      *)
(* their sign.                                                             *)
(***************************************************************************)
AnyHours == {-2, 2}
AnyQualityTenths == {-10, 10}

NextAccrual ==
    \/ \E agent_name \in LedgerAgents, task \in LedgerTasks, hours_worked \in AnyHours,
          quality_tenths \in AnyQualityTenths :
           RecordCompletion(agent_name, task, hours_worked, quality_tenths, {})
    \/ \E agent_name \in LedgerAgents : GetAgentSummary(agent_name)

SpecAccrual == Init /\ [][NextAccrual]_vars

(***************************************************************************)
(* Tess's routing on a council whose agents already hold tasks of earlier  *)
(* deployments: the loads are drawn at the start, and every step applies   *)
(* _redistribute_to_neighbor or facilitate_deliberation followed by        *)
(* optimize_distribution to them.                                          *)
(***************************************************************************)
\* hexagonal_position: 0 for veda up to 5 for tess
hexagonal_position(a) == (CHOOSE i \in 1..Len(AgentOrder) : AgentOrder[i] = a) - 1
AgentAt(position) == AgentOrder[(position % Len(AgentOrder)) + 1]

RoutingLoads == {0, 2, 3}     \* concurrent_tasks of an agent when routing starts
CriticalPaths ==
    {<<"design UI component">>,
     <<"complex architecture plan", "complex architecture plan">>,
     <<"token ledger api bridge", "design UI component">>,
     <<"build backend API", "design UI component">>,
     <<"tidy notes">>,
     <<"design UI component", "design UI component", "design UI component",
       "tidy notes", "tidy notes">>,
     <<"complex architecture plan", "complex architecture plan",
       "complex architecture plan">>,
     <<"design UI component", "design UI component", "design UI component",
       "design UI component">>}

\* the n tasks an agent holds, assigned and not yet started
HeldTasks(a, n) ==
    [id \in {hexagonal_position(a) * MAX_CONCURRENT_TASKS + k : k \in 1..n} |->
        NewTask("design UI component", TaskFacts["design UI component"].repo,
                TaskFacts["design UI component"].estimated_hours)]

InitRouting ==
    /\ phase = "idle"
    /\ current_briefing = None
    /\ deliberation_record = None
    /\ current_proposal = None
    /\ sofie_briefing = [a \in Agents |-> None]
    /\ current_meeting = None
    /\ \E load \in [Agents -> RoutingLoads] :
          /\ biometrics = [a \in Agents |->
                              [NewBiometrics EXCEPT !.concurrent_tasks = load[a]]]
          /\ tasks = [a \in Agents |-> HeldTasks(a, load[a])]
    /\ current_task = [a \in Agents |-> None]
    /\ resting = [a \in Agents |-> {}]
    /\ clock = Len(AgentOrder) * MAX_CONCURRENT_TASKS
    /\ records = <<>>
    /\ agent_totals = <<>>
    /\ disk = Absent
    /\ hex_ledger = <<>>
    /\ accrual_history = <<>>
    /\ client = NewClient
    /\ last = Ret("init", "ok", <<>>)

\* None of the three calls below changes the agents, so what a call returns does not
\* depend on the calls before it: each run makes one call on the loads drawn.
FirstCall == last.op = "init"

RedistributeToNeighbor(overloaded_agent, task) ==
    /\ FirstCall
    /\ \E neighbor \in {_redistribute_to_neighbor(overloaded_agent, task,
                                                  InitialCapacity(biometrics))} :
           last' = Ret("_redistribute_to_neighbor",
                       [overloaded_agent |-> overloaded_agent, task |-> task,
                        neighbor |-> neighbor],
                       <<>>)
    /\ UNCHANGED <<ceremonyVars, agentVars, ledgerVars, client>>

OptimizeDistribution(critical_path) ==
    /\ FirstCall
    /\ \E deliberation \in {facilitate_deliberation([critical_path |-> critical_path],
                                                    biometrics)} :
       \E optimized \in {optimize_distribution(deliberation.proposals, biometrics)} :
           last' = Ret("optimize_distribution",
                       [proposals |-> deliberation.proposals,
                        conflicts |-> deliberation.conflicts,
                        assignments |-> optimized.assignments],
                       <<>>)
    /\ UNCHANGED <<ceremonyVars, agentVars, ledgerVars, client>>

\* the veto gate as deliberate runs it: on the plan as routed, optimized and ordered
ValidateDeliberationWellness(critical_path) ==
    /\ FirstCall
    /\ \E deliberation \in {facilitate_deliberation([critical_path |-> critical_path],
                                                    biometrics)} :
       \E optimized \in {optimize_distribution(deliberation.proposals, biometrics)} :
       \E with_dependencies \in {coordinate_dependencies(optimized.assignments)} :
       \E wellness_check \in {_validate_deliberation_wellness(with_dependencies,
                                                              biometrics)} :
           last' = Ret("_validate_deliberation_wellness",
                       [assignments |-> with_dependencies,
                        approved |-> wellness_check.approved,
                        concerns |-> wellness_check.concerns],
                       <<>>)
    /\ UNCHANGED <<ceremonyVars, agentVars, ledgerVars, client>>

NextRouting ==
    \/ \E overloaded_agent \in Agents, task \in Descriptions :
           RedistributeToNeighbor(overloaded_agent, task)
    \/ \E critical_path \in CriticalPaths : OptimizeDistribution(critical_path)
    \/ \E critical_path \in CriticalPaths : ValidateDeliberationWellness(critical_path)

SpecRouting == InitRouting /\ [][NextRouting]_vars

(***************************************************************************)
(* The ceremony on a council whose spark already holds two or three tasks  *)
(* of earlier deployments, none of them completed.                         *)
(***************************************************************************)
BusyAgent == "spark"

\* the tasks held: their ids are clock readings from before this run
EarlierTasks(n) ==
    [id \in {k - n - 1 : k \in 1..n} |->
        NewTask("design UI component", TaskFacts["design UI component"].repo,
                TaskFacts["design UI component"].estimated_hours)]

InitBusy ==
    /\ phase = "idle"
    /\ current_briefing = None
    /\ deliberation_record = None
    /\ current_proposal = None
    /\ sofie_briefing = [a \in Agents |-> None]
    /\ current_meeting = None
    /\ \E n \in {MAX_CONCURRENT_TASKS - 1, MAX_CONCURRENT_TASKS} :
          /\ biometrics = [a \in Agents |->
                              IF a = BusyAgent
                              THEN [NewBiometrics EXCEPT !.concurrent_tasks = n]
                              ELSE NewBiometrics]
          /\ tasks = [a \in Agents |-> IF a = BusyAgent THEN EarlierTasks(n) ELSE <<>>]
    /\ current_task = [a \in Agents |-> None]
    /\ resting = [a \in Agents |-> {}]
    /\ clock = 0
    /\ records = <<>>
    /\ agent_totals = <<>>
    /\ disk = Absent
    /\ hex_ledger = <<>>
    /\ accrual_history = <<>>
    /\ client = NewClient
    /\ last = Ret("init", "ok", <<>>)

SpecBusy == InitBusy /\ [][Next]_vars

(***************************************************************************)
(* The admission gate on every kind of biometrics: the worker's readings   *)
(* are drawn at the start, on either side of each threshold, and every     *)
(* step is an assign_task call on it, with what the call returned.         *)
(***************************************************************************)
GateReadings ==
    [stress_level : {0, STRESS_THRESHOLD, STRESS_THRESHOLD + 1},
     cognitive_load : {0, LOAD_THRESHOLD, LOAD_THRESHOLD + 1},
     hours_worked_today : {0, MAX_HOURS_PER_DAY - 1, MAX_HOURS_PER_DAY},
     current_status : {"idle", "recovery"}]

InitGate ==
    /\ phase = "idle"
    /\ current_briefing = None
    /\ deliberation_record = None
    /\ current_proposal = None
    /\ sofie_briefing = [a \in Agents |-> None]
    /\ current_meeting = None
    /\ \E held \in RoutingLoads, readings \in GateReadings :
          /\ biometrics = [a \in Agents |->
                              IF a \in Workers
                              THEN [stress_level |-> readings.stress_level,
                                    cognitive_load |-> readings.cognitive_load,
                                    concurrent_tasks |-> held,
                                    hours_worked_today |-> readings.hours_worked_today,
                                    current_status |-> readings.current_status]
                              ELSE NewBiometrics]
          /\ tasks = [a \in Agents |-> IF a \in Workers THEN HeldTasks(a, held) ELSE <<>>]
    /\ current_task = [a \in Agents |-> None]
    /\ resting = [a \in Agents |-> {}]
    /\ clock = Len(AgentOrder) * MAX_CONCURRENT_TASKS
    /\ records = <<>>
    /\ agent_totals = <<>>
    /\ disk = Absent
    /\ hex_ledger = <<>>
    /\ accrual_history = <<>>
    /\ client = NewClient
    /\ last = Ret("init", "ok", <<>>)

\* assign_task with its return value: True and the task taken, or False and no change
AssignTaskCall(a, title) ==
    /\ IF assign_task_accepts(AgentState, a)
       THEN \E st \in {assign_task(AgentState, a, clock, NewTask(title, "unknown", 4))} :
               /\ biometrics' = st.biometrics
               /\ tasks' = st.tasks
               /\ clock' = clock + 1
       ELSE UNCHANGED <<biometrics, tasks, clock>>
    /\ last' = Ret("assign_task",
                   [agent |-> a, accepted |-> assign_task_accepts(AgentState, a)], <<>>)
    /\ UNCHANGED <<current_task, resting, ceremonyVars, ledgerVars, client>>

NextGate == \E a \in Workers, title \in Titles : AssignTaskCall(a, title)

SpecGate == InitGate /\ [][NextGate]_vars

(***************************************************************************)
(* The ceremony up to deployment, on a council whose spark holds two or    *)
(* three tasks, for briefings of frontend tasks and one no agent scores    *)
(* on: spark has room for at most one frontend task.                       *)
(***************************************************************************)
PartialBriefings ==
    {[critical_path |-> <<"design UI component", "design UI component", "tidy notes">>],
     [critical_path |-> <<"tidy notes", "design UI component">>]}

NextPartial ==
    \/ \E b \in PartialBriefings : receive_briefing(b)
    \/ deliberate
    \/ generate_proposal
    \/ \E authorized \in BOOLEAN : authorize(authorized)
    \/ deploy

SpecPartial == InitBusy /\ [][NextPartial]_vars

(***************************************************************************)
(* Sovereign territory (protected_repos.py) and CouncilGitHubClient.       *)
(***************************************************************************)
SOVEREIGN_TERRITORY == <<"sofie-llama-backend", "sofie-backend">>
PROTECTED_PATTERNS == <<"sofie-*", "*sofie*">>

\* the ecosystem repositories the council builds, in the order listed
PERMITTED_ECOSYSTEM_REPOS ==
    <<"pollen", "sandironratio-node", "terracare-ledger", "terracare-bridge", "hive-api",
      "heartware", "harmonic-balance", "terratrek", "nectar-tracker", "sofie-dashboard",
      "wellness-bridge">>

\* both return a copy of the list
get_ecosystem_build_targets == PERMITTED_ECOSYSTEM_REPOS
list_permitted_repos == PERMITTED_ECOSYSTEM_REPOS

RECURSIVE fnmatch(_, _)
\* fnmatch.fnmatch(name, pat) for patterns of plain characters and "*", on a platform
\* whose os.path.normcase changes nothing (POSIX)
fnmatch(name, pat) ==
    IF Len(pat) = 0 THEN Len(name) = 0
    ELSE IF SubSeq(pat, 1, 1) = "*"
    THEN \/ fnmatch(name, SubSeq(pat, 2, Len(pat)))
         \/ Len(name) > 0 /\ fnmatch(SubSeq(name, 2, Len(name)), pat)
    ELSE /\ Len(name) > 0
         /\ SubSeq(name, 1, 1) = SubSeq(pat, 1, 1)
         /\ fnmatch(SubSeq(name, 2, Len(name)), SubSeq(pat, 2, Len(pat)))

RECURSIVE SplitLast(_, _)
\* s.split("/")[-1], piece being the part read since the last "/"
SplitLast(s, piece) ==
    IF Len(s) = 0 THEN piece
    ELSE IF SubSeq(s, 1, 1) = "/" THEN SplitLast(SubSeq(s, 2, Len(s)), "")
    ELSE SplitLast(SubSeq(s, 2, Len(s)), piece \o SubSeq(s, 1, 1))

\* a faulty is_sovereign_territory that tests the name as given, owner prefix and all;
\* C27 fails with it
is_sovereign_territory_unstripped(repo_name) ==
    \/ \E i \in 1..Len(SOVEREIGN_TERRITORY) : repo_name = SOVEREIGN_TERRITORY[i]
    \/ \E i \in 1..Len(PROTECTED_PATTERNS) : fnmatch(repo_name, PROTECTED_PATTERNS[i])

is_sovereign_territory(repo_name) ==
    LET bare == IF Contains("/", repo_name) THEN SplitLast(repo_name, "") ELSE repo_name
    IN  \/ \E i \in 1..Len(SOVEREIGN_TERRITORY) : bare = SOVEREIGN_TERRITORY[i]
        \/ \E i \in 1..Len(PROTECTED_PATTERNS) : fnmatch(bare, PROTECTED_PATTERNS[i])

\* [repo for repo in all_repos if not is_sovereign_territory(repo)]
get_permitted_repos(all_repos) == SelectSeq(all_repos, LAMBDA repo : ~is_sovereign_territory(repo))

validate_work_plan(repos) ==
    LET violations == SelectSeq(repos, is_sovereign_territory)
        permitted == SelectSeq(repos, LAMBDA repo : ~is_sovereign_territory(repo))
    IN  [valid |-> Len(violations) = 0, permitted |-> permitted,
         violations |-> violations, can_proceed |-> Len(violations) = 0]

\* raise SovereignTerritoryError(repo_name, attempted_action)
SovereignTerritoryError(repo_name, attempted_action) ==
    [raised |-> "SovereignTerritoryError", repo_name |-> repo_name,
     attempted_action |-> attempted_action]

\* names with and without an owner prefix, protected by the list, by a pattern or not
\* at all, one in other case, one ending in "/", one whose owner is named sofie
RepoNames ==
    {"sofie-llama-backend", "DudeAdrian/sofie-llama-backend", "sofie-backend",
     "sofie-dashboard", "my-sofie", "pollen", "DudeAdrian/pollen", "sofie/pollen",
     "sofie-backend/", "Sofie-Backend", "a/b/sofie-x", "terracare-ledger", ""}
Owners == {"DudeAdrian", "sofie", "a/b"}
PlanNames == {"pollen", "DudeAdrian/sofie-llama-backend", "sofie/pollen"}
MaxPlan == 3
WorkPlans == UNION {[1..n -> PlanNames] : n \in 0..MaxPlan}
Branches == {"main", "council/bridge"}

RECURSIVE StripSlashes(_)
StripSlashes(s) ==
    IF Len(s) > 0 /\ SubSeq(s, Len(s), Len(s)) = "/"
    THEN StripSlashes(SubSeq(s, 1, Len(s) - 1)) ELSE s

\* str(workspace / repo_name) for the names of RepoNames, none of which starts with
\* "/" or has an empty or "." segment inside: Path drops trailing slashes
PathJoin(workspace, repo_name) ==
    IF Len(StripSlashes(repo_name)) = 0 THEN workspace
    ELSE workspace \o "/" \o StripSlashes(repo_name)

\* a faulty clone_repo without the check; C26 fails with it
clone_repo_unchecked(repo_name, branch) ==
    /\ last' = Ret("clone_repo",
                   [status |-> "cloned", repo |-> repo_name,
                    path |-> PathJoin(client.workspace, repo_name),
                    branch |-> branch, sovereign_check |-> "passed"], <<>>)
    /\ UNCHANGED <<client, ceremonyVars, agentVars, ledgerVars>>

clone_repo(repo_name, branch) ==
    /\ IF is_sovereign_territory(repo_name)
       THEN last' = Ret("clone_repo", SovereignTerritoryError(repo_name, "clone"), <<>>)
       ELSE last' = Ret("clone_repo",
                        [status |-> "cloned", repo |-> repo_name,
                         path |-> PathJoin(client.workspace, repo_name),
                         branch |-> branch, sovereign_check |-> "passed"], <<>>)
    /\ UNCHANGED <<client, ceremonyVars, agentVars, ledgerVars>>

create_branch(repo_name, branch_name) ==
    /\ IF is_sovereign_territory(repo_name)
       THEN last' = Ret("create_branch",
                        SovereignTerritoryError(repo_name, "create_branch"), <<>>)
       ELSE last' = Ret("create_branch",
                        [status |-> "branch_created", repo |-> repo_name,
                         branch |-> branch_name, base |-> "main"], <<>>)
    /\ UNCHANGED <<client, ceremonyVars, agentVars, ledgerVars>>

commit_changes(repo_name, branch, files) ==
    /\ IF is_sovereign_territory(repo_name)
       THEN last' = Ret("commit_changes", SovereignTerritoryError(repo_name, "commit"), <<>>)
       ELSE last' = Ret("commit_changes",
                        [status |-> "committed", repo |-> repo_name, branch |-> branch,
                         commit_message |-> "council work",
                         files_changed |-> Len(files)], <<>>)
    /\ UNCHANGED <<client, ceremonyVars, agentVars, ledgerVars>>

submit_pr(repo_name, branch) ==
    /\ IF is_sovereign_territory(repo_name)
       THEN last' = Ret("submit_pr", SovereignTerritoryError(repo_name, "submit_pr"), <<>>)
       ELSE last' = Ret("submit_pr",
                        [status |-> "pr_submitted", repo |-> repo_name, branch |-> branch,
                         title |-> "council work",
                         pr_url |-> "https://github.com/" \o client.owner \o "/"
                                        \o repo_name \o "/pull/XXX",
                         reviewers |-> <<"aura", "tess">>,
                         note |-> "Chief Architect will merge after review"], <<>>)
    /\ UNCHANGED <<client, ceremonyVars, agentVars, ledgerVars>>

\* the classifying calls, with their argument and what they returned
IsSovereignTerritory(repo_name) ==
    /\ last' = Ret("is_sovereign_territory",
                   [repo_name |-> repo_name,
                    result |-> is_sovereign_territory(repo_name)], <<>>)
    /\ UNCHANGED <<client, ceremonyVars, agentVars, ledgerVars>>

GetPermittedRepos(all_repos) ==
    /\ last' = Ret("get_permitted_repos",
                   [all_repos |-> all_repos, result |-> get_permitted_repos(all_repos)],
                   <<>>)
    /\ UNCHANGED <<client, ceremonyVars, agentVars, ledgerVars>>

ValidateWorkPlan(repos) ==
    /\ last' = Ret("validate_work_plan",
                   [repos |-> repos, result |-> validate_work_plan(repos)], <<>>)
    /\ UNCHANGED <<client, ceremonyVars, agentVars, ledgerVars>>

NextTerritory ==
    \/ \E repo_name \in RepoNames, branch \in Branches : clone_repo(repo_name, branch)
    \/ \E repo_name \in RepoNames, branch \in Branches : create_branch(repo_name, branch)
    \/ \E repo_name \in RepoNames, branch \in Branches :
           commit_changes(repo_name, branch, <<"bridge.py">>)
    \/ \E repo_name \in RepoNames, branch \in Branches : submit_pr(repo_name, branch)
    \/ \E repo_name \in RepoNames : IsSovereignTerritory(repo_name)
    \/ \E all_repos \in WorkPlans : GetPermittedRepos(all_repos)
    \/ \E repos \in WorkPlans : ValidateWorkPlan(repos)

SpecTerritory == Init /\ [][NextTerritory]_vars

(***************************************************************************)
(* VedaAgent.execute_task among the calls that lower stress and load:      *)
(* complete_task, take_break and rest.  Veda holds two tasks of earlier    *)
(* deployments.  Stress and load are in units of 1/100.                    *)
(***************************************************************************)
COMPLEXITY_THRESHOLD == 70      \* VedaAgent.complexity_threshold = 0.7
MaxLoad == 100                  \* execute_task is explored from loads up to this

\* the tasks executed: half a day of plain work and a day of complex work
ExecutedTasks ==
    {[title |-> "tidy notes", estimated_hours |-> 4],
     [title |-> "complex architecture plan", estimated_hours |-> 8]}

\* _estimate_task_complexity, in units of 1/1000
_estimate_task_complexity(task) ==
    LET base == Min(1000, task.estimated_hours * 125)
        boost == 100 * Matches({"algorithm", "complex", "optimization", "refactor",
                                "architecture", "microservice", "distributed"},
                               Lower(task.title))
    IN  Min(1000, base + boost)

\* execute_task from its steps on: the load rises by 0.1, 0.1, 0.2 and 0.1, the stress
\* by 0.2 for a complexity over 0.7 and by 0.15 for more than four hours
execute_task(b, task) ==
    LET strained == IF _estimate_task_complexity(task) > 700
                    THEN b.stress_level + 20 ELSE b.stress_level
    IN  [b EXCEPT !.cognitive_load = @ + 10 + 10 + 20 + 10,
                  !.stress_level = IF task.estimated_hours > 4
                                   THEN strained + 15 ELSE strained]

\* execute_task up to the sleep of its take_break, or to its end when it takes none.
\* The stress is a float: sums that are 0.7 in exact arithmetic (0.35 + 0.35) may lie
\* on either side of the threshold, so at 0.7 exactly both branches are explored.
ExecuteTask(a, task) ==
    /\ task.title \notin resting[a]
    /\ biometrics[a].cognitive_load <= MaxLoad
    /\ \E over \in {biometrics[a].stress_level > COMPLEXITY_THRESHOLD}
                   \cup (IF biometrics[a].stress_level = COMPLEXITY_THRESHOLD
                         THEN BOOLEAN ELSE {}) :
          IF over
          THEN /\ biometrics' = [biometrics EXCEPT ![a].current_status = "recovery"]
               /\ resting' = [resting EXCEPT ![a] = @ \cup {task.title}]
          ELSE /\ biometrics' = [biometrics EXCEPT ![a] = execute_task(@, task)]
               /\ UNCHANGED resting
    /\ UNCHANGED <<tasks, current_task, clock, ceremonyVars, ledgerVars, client, last>>

\* execute_task from the sleep of its take_break on
ExecuteTaskResume(a, task) ==
    /\ task.title \in resting[a]
    /\ biometrics' = [biometrics EXCEPT ![a] = execute_task(take_break_resume(@), task)]
    /\ resting' = [resting EXCEPT ![a] = @ \ {task.title}]
    /\ UNCHANGED <<tasks, current_task, clock, ceremonyVars, ledgerVars, client, last>>

InitExecute ==
    /\ phase = "idle"
    /\ current_briefing = None
    /\ deliberation_record = None
    /\ current_proposal = None
    /\ sofie_briefing = [a \in Agents |-> None]
    /\ current_meeting = None
    /\ biometrics = [a \in Agents |->
                        IF a = "veda" THEN [NewBiometrics EXCEPT !.concurrent_tasks = 2]
                        ELSE NewBiometrics]
    /\ tasks = [a \in Agents |-> IF a = "veda" THEN EarlierTasks(2) ELSE <<>>]
    /\ current_task = [a \in Agents |-> None]
    /\ resting = [a \in Agents |-> {}]
    /\ clock = 0
    /\ records = <<>>
    /\ agent_totals = <<>>
    /\ disk = Absent
    /\ hex_ledger = <<>>
    /\ accrual_history = <<>>
    /\ client = NewClient
    /\ last = Ret("init", "ok", <<>>)

NextExecute ==
    \/ \E task \in ExecutedTasks : ExecuteTask("veda", task)
    \/ \E task \in ExecutedTasks : ExecuteTaskResume("veda", task)
    \/ \E id \in DOMAIN EarlierTasks(2) : CompleteTask("veda", id)
    \/ TakeBreakBegin("veda")
    \/ TakeBreakEnd("veda")
    \/ RestBegin("veda")
    \/ RestEnd("veda")

SpecExecute == InitExecute /\ [][NextExecute]_vars

(***************************************************************************)
(* Completion reports alone, on a council whose spark holds two or three   *)
(* tasks: any report, for any agent and task, any number of times per task.*)
(***************************************************************************)
MaxCredits == 2      \* ledger records appended over a run of reports
ReportedIds == DOMAIN EarlierTasks(MAX_CONCURRENT_TASKS) \cup {0}

ReportCompletion(agent_name, task_id, hours_worked, quality_tenths) ==
    /\ Credits(agent_name, task_id) => Len(records) < MaxCredits
    /\ RecordTaskCompletion(agent_name, task_id, hours_worked, quality_tenths)

NextCredit ==
    \E agent_name \in AgentNames, task_id \in ReportedIds, hours_worked \in HoursWorked,
       quality_tenths \in QualityTenths :
        ReportCompletion(agent_name, task_id, hours_worked, quality_tenths)

SpecCredit == InitBusy /\ [][NextCredit]_vars

(***************************************************************************)
(* Properties.                                                             *)
(***************************************************************************)

\* C1: whatever assign_task, start_task, complete_task, execute_deployment,
\* take_break and rest calls have run, every agent's concurrent_tasks is at most
\* MAX_CONCURRENT_TASKS.
C1_ConcurrentTasksCapped ==
    \A a \in Agents : biometrics[a].concurrent_tasks <= MAX_CONCURRENT_TASKS

\* an agent at the cap again after one of its tasks was completed and another
\* assigned, while it is in recovery
C1_AtCapAfterCompletion ==
    \E a \in Agents :
        /\ biometrics[a].concurrent_tasks = MAX_CONCURRENT_TASKS
        /\ \E id \in DOMAIN tasks[a] : tasks[a][id].status = "completed"
        /\ biometrics[a].current_status = "recovery"

\* the edges of the ceremony: the chain, rejection and veto back to Idle, and a
\* new ceremony after a finished one
PhaseEdges ==
    {<<"idle", "receiving_briefing">>, <<"receiving_briefing", "deliberating">>,
     <<"deliberating", "proposing">>, <<"proposing", "awaiting_authorization">>,
     <<"awaiting_authorization", "deploying">>, <<"deploying", "complete">>,
     <<"awaiting_authorization", "idle">>, <<"deliberating", "idle">>,
     <<"complete", "idle">>, <<"complete", "receiving_briefing">>}

\* every assignment of the path moves along an edge, starting from the phase `from`
FollowsEdges(from, path) ==
    \A i \in 1..Len(path) :
        LET before == IF i = 1 THEN from ELSE path[i - 1]
        IN  path[i] = before \/ <<before, path[i]>> \in PhaseEdges

\* C2: every value a call assigns to the phase is reached along an edge of the
\* ceremony chain; no call moves the phase to a value that skips a phase.
C2_PhaseFollowsChain == [][FollowsEdges(phase, last'.path)]_vars

Running == {"deliberating", "proposing", "awaiting_authorization", "deploying"}

\* C3: a receive_briefing call made while the phase is Deliberating, Proposing,
\* AwaitingAuthorization or Deploying is rejected and leaves the phase, the
\* briefing, the deliberation record and the proposal as they were.
C3_BriefingRejectedWhileRunning ==
    [][(phase \in Running /\ \E b \in Briefings : receive_briefing(b))
          => (/\ last'.ret = "error"
              /\ UNCHANGED <<phase, current_briefing, deliberation_record,
                             current_proposal>>)]_vars

\* C4: when deliberate has returned with a veto, the phase is Idle and the stored
\* deliberation record carries the veto with its reasons.
C4_VetoReturnsToIdle ==
    (last.op = "deliberate" /\ last.ret = "blocked")
        => /\ phase = "idle"
           /\ deliberation_record.status = "vetoed"
           /\ deliberation_record.reason.reasons # <<>>

\* the last deliberate that stored a record ended in a veto
Vetoed ==
    /\ "status" \in DOMAIN deliberation_record
    /\ deliberation_record.status = "vetoed"

\* C5: while the last deliberation stands vetoed, generate_proposal, authorize and
\* deploy produce no proposal and no deployment, and no task is created on any
\* agent.
C5_VetoIsTerminal ==
    [][(Vetoed /\ last'.op \in {"generate_proposal", "authorize", "deploy"})
          => (/\ last'.ret \notin {"proposed", "deployed"}
              /\ tasks' = tasks)]_vars

\* C6: a deploy that follows a rejecting authorize returns the error and creates
\* no task, whatever authorize calls preceded the rejection.
C6_NoDeployAfterRejection ==
    [][(last.op = "authorize" /\ last.ret = "rejected" /\ deploy)
          => (last'.ret = "error" /\ tasks' = tasks)]_vars

\* C7: deploy with no proposal or with a proposal never authorized returns the
\* error and changes no agent's tasks or counters; record_task_completion for an
\* unknown agent or a task id never assigned to the agent returns an error and
\* changes neither the agents nor the ledger.
C7_MissingPreconditionChangesNothing ==
    [][/\ ((current_proposal = None \/ "authorized_by" \notin DOMAIN current_proposal)
              /\ deploy)
           => (last'.ret = "error" /\ UNCHANGED <<agentVars, ledgerVars>>)
       /\ \A agent_name \in AgentNames, task_id \in TaskIds,
             hours_worked \in HoursWorked, quality_tenths \in QualityTenths :
             ((agent_name \notin Agents \/ task_id \notin DOMAIN tasks[agent_name])
                 /\ record_task_completion(agent_name, task_id, hours_worked,
                                           quality_tenths))
              => (/\ last'.ret \in {"unknown_agent", "task_not_found"}
                  /\ UNCHANGED <<agentVars, ledgerVars>>)]_vars

\* a completion was reported for a task id the agent never held, while the agent
\* holds another task and the council holds a proposal not yet authorized
C7_UnknownTaskReported ==
    /\ last.op = "record_task_completion"
    /\ last.ret = "task_not_found"
    /\ \E a \in Agents : tasks[a] # <<>>
    /\ current_proposal # None
    /\ "authorized_by" \notin DOMAIN current_proposal

\* C8: receive_briefing, deliberate, generate_proposal and a rejecting authorize
\* change no agent's concurrent_tasks, status, stress, load or hours and no
\* agent's task table.
C8_NothingReservedBeforeAuthorization ==
    [][(\/ \E b \in Briefings : receive_briefing(b)
        \/ deliberate
        \/ generate_proposal
        \/ authorize(FALSE))
          => UNCHANGED <<biometrics, tasks>>]_vars

\* a proposal was rejected while an agent was working on a deployed task
C8_RejectedWhileAgentWorks ==
    /\ last.op = "authorize"
    /\ last.ret = "rejected"
    /\ \E a \in Agents : /\ biometrics[a].concurrent_tasks > 0
                         /\ biometrics[a].current_status = "working"

\* C9: for every agent the running total_nectar is the sum of nectar_accrued over
\* the agent's records and tasks_completed is their count, in every state of a
\* ledger constructed or loaded and then credited.
C9_TotalsMatchRecords ==
    /\ \A i \in 1..Len(records) : records[i].agent_name \in DOMAIN agent_totals
    /\ \A a \in DOMAIN agent_totals :
           /\ agent_totals[a].total_nectar = NectarOf(records, a)
           /\ agent_totals[a].tasks_completed = CountOf(records, a)

\* a ledger just constructed over a file that holds records of two agents
C9_LoadedTwoAgents ==
    /\ last.op = "DiligenceLedger"
    /\ Len(records) >= 2
    /\ \E i, j \in 1..Len(records) : records[i].agent_name # records[j].agent_name

\* the sequence after is the sequence before with at most one record added at the end
AppendedTo(before, after) ==
    \/ after = before
    \/ /\ Len(after) = Len(before) + 1
       /\ SubSeq(after, 1, Len(before)) = before

\* C10: every operation on a constructed ledger leaves the record sequence as it
\* was or adds one record at its end, and the queries change nothing of the ledger.
C10_AppendOnly ==
    [][/\ last'.op # "DiligenceLedger" => AppendedTo(records, records')
       /\ last'.op \in {"get_agent_summary", "get_genesis_snapshot",
                        "get_council_summary"}
             => UNCHANGED <<records, agent_totals, disk>>]_vars

\* a record was added to a ledger that held two
C10_ThirdRecordAppended ==
    /\ last.op = "record_completion"
    /\ Len(records) = 3

C12_SaveIsAtomic ==
    [][LET before == _load(disk).records
           after == _load(disk').records
       IN  /\ disk'.kind # "partial"
           /\ Len(before) <= Len(after)
           /\ SubSeq(after, 1, Len(before)) = before]_vars

C14_OnlyTheLedgerWritesItsHistory ==
    [][last'.op \in {"HexAgent", "HexAgent.record_completion"}
       => _load(disk') = _load(disk)]_vars

\* C15: every record's nectar_accrued is at least 0, and no call lowers an agent's
\* total_nectar, whatever hours_worked and quality_score the call is given
C15_CreditOnlyAccrues ==
    [][/\ \A i \in 1..Len(records') : records'[i].nectar_accrued >= 0
       /\ \A a \in DOMAIN agent_totals :
              /\ a \in DOMAIN agent_totals'
              /\ agent_totals'[a].total_nectar >= agent_totals[a].total_nectar]_vars

\* C16: redistribution away from P returns P's left ring neighbour (position - 1 mod 6)
\* if it has capacity left and scores above 0.3 on the task, else P's right ring
\* neighbour (position + 1 mod 6) if that one does, else nobody; never P itself and
\* never an agent that is not next to P on the ring
C16_FirstQualifyingRingNeighbour ==
    last.op = "_redistribute_to_neighbor" =>
        LET P == last.ret.overloaded_agent
            left == AgentAt(hexagonal_position(P) - 1)
            right == AgentAt(hexagonal_position(P) + 1)
            qualifies(n) ==
                /\ MAX_CONCURRENT_TASKS - biometrics[n].concurrent_tasks > 0
                /\ can_handle_task(n, last.ret.task) > Threshold
        IN  /\ last.ret.neighbor = IF qualifies(left) THEN left
                                   ELSE IF qualifies(right) THEN right
                                   ELSE NoAgent
            /\ last.ret.neighbor # P
            /\ last.ret.neighbor \in {left, right, NoAgent}

\* a task taken from aura went to veda on its left, though hex on its right is free
\* and scores higher
C16_LeftBeforeBetterRight ==
    /\ last.op = "_redistribute_to_neighbor"
    /\ last.ret.overloaded_agent = "aura"
    /\ last.ret.neighbor = "veda"
    /\ biometrics["hex"].concurrent_tasks < MAX_CONCURRENT_TASKS
    /\ can_handle_task("hex", last.ret.task) > can_handle_task("veda", last.ret.task)

\* the agent a planned assignment was first meant for, whether the plan moved or queued
\* it, and how many places of an agent the assignments before the i-th have taken
Preferred(a) == IF "redistributed_from" \in DOMAIN a THEN a.redistributed_from ELSE a.agent
Queued(a) == Get(a, "status", "") = "queued"
Displaced(a) == "redistributed_from" \in DOMAIN a \/ Queued(a)
PlannedBefore(assignments, i, agent) ==
    Cardinality({j \in 1..(i - 1) : assignments[j].agent = agent /\ ~Queued(assignments[j])})

\* C17 as stated: whenever optimize_distribution moves a task to a neighbour or queues
\* it, the preferred agent's can_accept_task is false
C17_DisplacedOnlyWhenGateFails ==
    last.op = "optimize_distribution" =>
        \A i \in 1..Len(last.ret.assignments) :
            Displaced(last.ret.assignments[i])
            => ~can_accept_task(biometrics[Preferred(last.ret.assignments[i])])

\* C17 as amended: whenever optimize_distribution moves a task to a neighbour or queues
\* it, the tasks the preferred agent held when routing started plus those this plan
\* has already given it reach MAX_CONCURRENT_TASKS
C17_DisplacedOnlyWhenCapacityUsedUp ==
    last.op = "optimize_distribution" =>
        \A i \in 1..Len(last.ret.assignments) :
            Displaced(last.ret.assignments[i])
            => LET preferred == Preferred(last.ret.assignments[i])
               IN  biometrics[preferred].concurrent_tasks
                     + PlannedBefore(last.ret.assignments, i, preferred)
                   >= MAX_CONCURRENT_TASKS

\* tess, holding two tasks, got the first of two tasks it was preferred for, and the
\* second went to veda
C17_SecondTaskMoved ==
    /\ last.op = "optimize_distribution"
    /\ Len(last.ret.assignments) = 2
    /\ biometrics["tess"].concurrent_tasks = 2
    /\ last.ret.assignments[1].agent = "tess"
    /\ ~Displaced(last.ret.assignments[1])
    /\ Displaced(last.ret.assignments[2])
    /\ Preferred(last.ret.assignments[2]) = "tess"
    /\ last.ret.assignments[2].agent = "veda"

\* C18: in the plan of one optimize_distribution, the assignments that name an agent and
\* are not queued number at most MAX_CONCURRENT_TASKS minus the concurrent_tasks the
\* agent had when routing started
C18_PlanWithinCapacity ==
    last.op = "optimize_distribution" =>
        \A a \in Agents :
            PlannedBefore(last.ret.assignments, Len(last.ret.assignments) + 1, a)
                <= MAX_CONCURRENT_TASKS - biometrics[a].concurrent_tasks

\* four tasks all preferring spark, which held none: three planned for it, the fourth
\* queued for want of a qualifying neighbour
C18_FourthTaskHeldBack ==
    /\ last.op = "optimize_distribution"
    /\ Len(last.ret.assignments) = 4
    /\ biometrics["spark"].concurrent_tasks = 0
    /\ PlannedBefore(last.ret.assignments, 5, "spark") = MAX_CONCURRENT_TASKS
    /\ \A i \in 1..4 : Preferred(last.ret.assignments[i]) = "spark"
    /\ Queued(last.ret.assignments[4])

\* C19: a deliberation over a briefing whose plan holds a queued task (its preferred
\* agent has no place left and no neighbour qualifies) is not vetoed: it completes with
\* the queued task in its assignments, so that the ceremony can go on to Complete
C19_QueuedTaskDoesNotVeto ==
    [][(last'.op = "deliberate" /\ sofie_briefing[AgentOrder[1]] # None)
       => LET proposals == facilitate_deliberation(sofie_briefing[AgentOrder[1]],
                                                   biometrics).proposals
              plan == optimize_distribution(proposals, biometrics).assignments
          IN  (\E i \in 1..Len(plan) : Queued(plan[i]))
              => /\ last'.ret = "deliberated"
                 /\ deliberation_record'.status = "complete"
                 /\ \E i \in 1..Len(deliberation_record'.assignments) :
                        Queued(deliberation_record'.assignments[i])]_vars

\* the gate as the contract words it
Admits(b) ==
    /\ b.concurrent_tasks < 3
    /\ b.current_status # "recovery"
    /\ ~(b.stress_level > 70 \/ b.hours_worked_today >= 8 \/ b.cognitive_load > 80)

\* C20: can_accept_task is true exactly when concurrent_tasks < 3, the status is not
\* recovery and none of stress_level > 0.7, hours_worked_today >= 8, cognitive_load > 0.8
\* holds; and assign_task returns True and takes the task exactly then, and otherwise
\* returns False and changes nothing
C20_GateIsTheContract ==
    [][/\ \A a \in Agents : can_accept_task(biometrics[a]) <=> Admits(biometrics[a])
       /\ last'.op = "assign_task"
          => LET a == last'.ret.agent
             IN  /\ last'.ret.accepted <=> Admits(biometrics[a])
                 /\ last'.ret.accepted
                    => /\ biometrics'[a].concurrent_tasks = biometrics[a].concurrent_tasks + 1
                       /\ Cardinality(DOMAIN tasks'[a]) = Cardinality(DOMAIN tasks[a]) + 1
                 /\ ~last'.ret.accepted => UNCHANGED <<biometrics, tasks>>]_vars

\* an agent with stress exactly 0.7, cognitive load exactly 0.8, seven hours worked and
\* two tasks held has been given a third
C20_AcceptedAtTheThresholds ==
    /\ last.op = "assign_task"
    /\ last.ret.accepted
    /\ \E a \in Workers :
          /\ biometrics[a].stress_level = STRESS_THRESHOLD
          /\ biometrics[a].cognitive_load = LOAD_THRESHOLD
          /\ biometrics[a].hours_worked_today = MAX_HOURS_PER_DAY - 1
          /\ biometrics[a].concurrent_tasks = MAX_CONCURRENT_TASKS

\* the agents that score above the consideration threshold on a task
Candidates(task) == {a \in Agents : Confidence(a, task) > Threshold}

\* C21 as stated: a task with fewer than two candidates above 0.3 is assigned to veda
C21_FewerThanTwoFallsBack ==
    last.op = "optimize_distribution" =>
        \A i \in 1..Len(last.ret.proposals) :
            Cardinality(Candidates(last.ret.proposals[i].task)) < 2
            => last.ret.proposals[i].assigned_to = "veda"

\* C21 as amended: a task with no candidate above 0.3 is assigned to veda with
\* confidence 0.3; a task with exactly one candidate is assigned to that candidate
C21_NoCandidateFallsBack ==
    last.op = "optimize_distribution" =>
        \A i \in 1..Len(last.ret.proposals) :
            LET proposal == last.ret.proposals[i]
                candidates == Candidates(proposal.task)
            IN  /\ candidates = {}
                   => proposal.assigned_to = "veda" /\ proposal.confidence = Threshold
                /\ Cardinality(candidates) = 1 => proposal.assigned_to \in candidates

\* a task nobody scores on has been proposed for veda
C21_UnscoredTaskToVeda ==
    /\ last.op = "optimize_distribution"
    /\ Len(last.ret.proposals) = 1
    /\ Candidates(last.ret.proposals[1].task) = {}
    /\ last.ret.proposals[1].assigned_to = "veda"

\* C22: on a roster of six idle agents holding no task, the critical path "build
\* backend API", "design UI component" is proposed for veda and for spark, each with
\* confidence of at least 0.6, and no conflict is recorded
C22_BackendToVedaFrontendToSpark ==
    (/\ last.op = "optimize_distribution"
     /\ \A a \in Agents : biometrics[a] = NewBiometrics
     /\ Len(last.ret.proposals) = 2
     /\ last.ret.proposals[1].task = "build backend API"
     /\ last.ret.proposals[2].task = "design UI component")
    => /\ last.ret.proposals[1].assigned_to = "veda"
       /\ 10 * last.ret.proposals[1].confidence >= 6 * Unit
       /\ last.ret.proposals[2].assigned_to = "spark"
       /\ 10 * last.ret.proposals[2].confidence >= 6 * Unit
       /\ last.ret.conflicts = <<>>

DeploymentResults ==
    execute_deployment(current_proposal.council_plan.assignments, AgentState).results

\* the assignments before the i-th that were deployed to the agent
DeployedBefore(results, i, agent) ==
    {j \in 1..(i - 1) : results[j].status = "deployed" /\ results[j].agent = agent}

\* C24: a deploy of the authorized plan gives one result per assignment, in order; an
\* assignment is reported queued exactly when its agent refuses it, having no room left
\* after the ones deployed before it, and the later assignments are handled all the
\* same; each assignment reported deployed is a new task of its agent, in progress,
\* the agent's concurrent_tasks rising by one for each; the ceremony is then complete
C24_OneResultPerAssignment ==
    [][(last'.op = "deploy" /\ last'.ret = "deployed") =>
          LET plan == current_proposal.council_plan.assignments
              results == DeploymentResults
          IN  /\ Len(results) = Len(plan)
              /\ \A i \in 1..Len(plan) :
                    /\ results[i].assignment = plan[i]
                    /\ results[i].status \in {"deployed", "queued"}
                    /\ results[i].status = "queued" <=>
                           ~can_accept_task(
                               [biometrics[plan[i].agent] EXCEPT !.concurrent_tasks =
                                   @ + Cardinality(DeployedBefore(results, i, plan[i].agent))])
                    /\ results[i].status = "deployed" =>
                           /\ results[i].agent = plan[i].agent
                           /\ results[i].task_id \notin DOMAIN tasks[plan[i].agent]
                           /\ results[i].task_id \in DOMAIN tasks'[plan[i].agent]
                           /\ tasks'[plan[i].agent][results[i].task_id].status = "in_progress"
                           /\ tasks'[plan[i].agent][results[i].task_id].title = plan[i].task
                           /\ \A j \in 1..(i - 1) :
                                  results[j].status = "deployed" =>
                                      results[j].task_id # results[i].task_id
              /\ \A a \in Agents :
                    biometrics'[a].concurrent_tasks =
                        biometrics[a].concurrent_tasks
                            + Cardinality(DeployedBefore(results, Len(plan) + 1, a))
              /\ phase' = "complete"]_vars

\* a deployment of three assignments is complete: spark took the first and refused the
\* second, and veda took the third after that
C24_RefusedThenDeployed ==
    /\ last.op = "deploy"
    /\ last.ret = "deployed"
    /\ phase = "complete"
    /\ Len(current_proposal.council_plan.assignments) = 3
    /\ biometrics["spark"].concurrent_tasks = MAX_CONCURRENT_TASKS
    /\ Cardinality(DOMAIN tasks["spark"]) = MAX_CONCURRENT_TASKS
    /\ current_proposal.council_plan.assignments[2].agent = "spark"
    /\ current_proposal.council_plan.assignments[3].agent = "veda"
    /\ biometrics["veda"].concurrent_tasks = 1
    /\ \E id \in DOMAIN tasks["veda"] : tasks["veda"][id].status = "in_progress"

\* the tasks an agent has in progress that it did not hold before the step
StartedNow(a) ==
    {id \in DOMAIN tasks'[a] : id \notin DOMAIN tasks[a] /\ tasks'[a][id].status = "in_progress"}

\* the number of further tasks the agent's gate admits
Room(b) == IF can_accept_task(b) THEN MAX_CONCURRENT_TASKS - b.concurrent_tasks ELSE 0

\* C25: receive_briefing, deliberate, generate_proposal, authorize and deploy leave the
\* ledger's records and totals as they were; the tasks a deployment starts are fixed by
\* the plan and the agents' gates, one per assignment as far as the agent has room,
\* whatever the ledger holds; an entry record_task_completion appends names a task of
\* that agent whose status is completed
C25_CreditOnlyAfterCompletion ==
    [][/\ last'.op \in {"receive_briefing", "deliberate", "generate_proposal",
                        "authorize", "deploy"}
            => (records' = records /\ agent_totals' = agent_totals)
       /\ (last'.op = "deploy" /\ last'.ret = "deployed")
            => LET plan == current_proposal.council_plan.assignments
               IN  \A a \in Agents :
                       Cardinality(StartedNow(a)) =
                           Min(Cardinality({i \in 1..Len(plan) : plan[i].agent = a}),
                               Room(biometrics[a]))
       /\ records' # records
            => /\ last'.op = "record_task_completion"
               /\ Len(records') = Len(records) + 1
               /\ SubSeq(records', 1, Len(records)) = records
               /\ LET r == records'[Len(records')]
                  IN  /\ r.agent_name \in Agents
                      /\ r.task_id \in DOMAIN tasks'[r.agent_name]
                      /\ tasks'[r.agent_name][r.task_id].status = "completed"]_vars

\* a deployment has started a task on an agent the ledger already holds an entry for
C25_StartedWithCreditOnLedger ==
    /\ last.op = "deploy"
    /\ last.ret = "deployed"
    /\ records # <<>>
    /\ \E a \in Agents :
          /\ a \in DOMAIN agent_totals
          /\ \E id \in DOMAIN tasks[a] : tasks[a][id].status = "in_progress"
          /\ \E id \in DOMAIN tasks[a] : tasks[a][id].status = "completed"

\* the text after the last "/" of a name, the whole name if it has none
BareName(name) ==
    LET slashes == {i \in 1..Len(name) : SubSeq(name, i, i) = "/"}
        k == IF slashes = {} THEN 0 ELSE CHOOSE i \in slashes : \A j \in slashes : j <= i
    IN  SubSeq(name, k + 1, Len(name))

\* in the protected-name set, or matching "sofie-*" or "*sofie*"
ProtectedBare(bare) ==
    \/ bare \in {"sofie-llama-backend", "sofie-backend"}
    \/ Len(bare) >= 6 /\ SubSeq(bare, 1, 6) = "sofie-"
    \/ Contains("sofie", bare)

\* C27: is_sovereign_territory(name) is true exactly when the bare name, the text after
\* the last "/", is a protected name or matches a protected pattern, so that owner/X is
\* protected iff X is, sofie-llama-backend is protected with and without an owner and
\* pollen is not; get_permitted_repos keeps exactly the names that are not protected, in
\* order, and validate_work_plan sorts each name into permitted or violations the same
\* way and is valid iff there is no violation
C27_ProtectedIffBareNameIs ==
    /\ last.op = "is_sovereign_territory" =>
          /\ last.ret.result <=> ProtectedBare(BareName(last.ret.repo_name))
          /\ \A owner \in Owners :
                is_sovereign_territory(owner \o "/" \o last.ret.repo_name) <=> last.ret.result
    /\ is_sovereign_territory("sofie-llama-backend")
    /\ \A owner \in Owners : is_sovereign_territory(owner \o "/sofie-llama-backend")
    /\ ~is_sovereign_territory("pollen")
    /\ last.op = "get_permitted_repos" =>
          last.ret.result =
              SelectSeq(last.ret.all_repos, LAMBDA repo : ~ProtectedBare(BareName(repo)))
    /\ last.op = "validate_work_plan" =>
          /\ last.ret.result.permitted =
                 SelectSeq(last.ret.repos, LAMBDA repo : ~ProtectedBare(BareName(repo)))
          /\ last.ret.result.violations =
                 SelectSeq(last.ret.repos, LAMBDA repo : ProtectedBare(BareName(repo)))
          /\ last.ret.result.valid <=> last.ret.result.violations = <<>>
          /\ last.ret.result.can_proceed <=> last.ret.result.valid

\* a work plan of a protected name under an owner, a free name under the owner sofie and
\* a free name was validated: one violation, two permitted
C27_MixedPlanValidated ==
    /\ last.op = "validate_work_plan"
    /\ last.ret.repos = <<"DudeAdrian/sofie-llama-backend", "sofie/pollen", "pollen">>
    /\ ~last.ret.result.valid
    /\ last.ret.result.violations = <<"DudeAdrian/sofie-llama-backend">>
    /\ last.ret.result.permitted = <<"sofie/pollen", "pollen">>

\* the resource operations and the action each names when it raises
AttemptedAction ==
    [clone_repo |-> "clone", create_branch |-> "create_branch",
     commit_changes |-> "commit", submit_pr |-> "submit_pr"]

\* the name a resource operation was called with, from its result or its exception
CalledWith(ret) == IF "raised" \in DOMAIN ret THEN ret.repo_name ELSE ret.repo

\* C26: clone_repo, create_branch, commit_changes and submit_pr, called with a protected
\* name, raise SovereignTerritoryError carrying that name and the attempted action and
\* give no result; called with any other name they give their result, whatever was
\* called before; neither way does the client or anything else change
C26_ProtectedNameIsHardStop ==
    [][last'.op \in DOMAIN AttemptedAction =>
          /\ is_sovereign_territory(CalledWith(last'.ret)) =>
                last'.ret = [raised |-> "SovereignTerritoryError",
                             repo_name |-> CalledWith(last'.ret),
                             attempted_action |-> AttemptedAction[last'.op]]
          /\ ~is_sovereign_territory(CalledWith(last'.ret)) =>
                /\ "raised" \notin DOMAIN last'.ret
                /\ last'.ret.status \in {"cloned", "branch_created", "committed",
                                         "pr_submitted"}
          /\ client' = client
          /\ UNCHANGED <<ceremonyVars, agentVars, ledgerVars>>]_vars

\* submit_pr on the protected repository under its owner has raised
C26_SubmitPrRaised ==
    /\ last.op = "submit_pr"
    /\ last.ret = [raised |-> "SovereignTerritoryError",
                   repo_name |-> "DudeAdrian/sofie-llama-backend",
                   attempted_action |-> "submit_pr"]
    /\ client = NewClient

\* C28: across a step that finds an agent in recovery and leaves it in recovery, the
\* agent's concurrent_tasks keeps its value
C28_CountFrozenInRecovery ==
    [][\A a \in Agents :
          (biometrics[a].current_status = "recovery"
              /\ biometrics'[a].current_status = "recovery")
          => biometrics'[a].concurrent_tasks = biometrics[a].concurrent_tasks]_vars

\* C29: every agent's stress_level and cognitive_load lie between 0 and 1
C29_StressAndLoadInUnitInterval ==
    \A a \in Agents :
        /\ 0 <= biometrics[a].stress_level /\ biometrics[a].stress_level <= 100
        /\ 0 <= biometrics[a].cognitive_load /\ biometrics[a].cognitive_load <= 100

\* C30: a deploy call that directly follows the deploy that completed the ceremony
\* creates no task on any agent and raises no agent's concurrent_tasks
C30_SecondDeployCreatesNothing ==
    [][(last.op = "deploy" /\ last.ret = "deployed" /\ phase = "complete"
           /\ last'.op = "deploy")
       => \A a \in Agents :
             /\ DOMAIN tasks'[a] = DOMAIN tasks[a]
             /\ biometrics'[a].concurrent_tasks <= biometrics[a].concurrent_tasks]_vars

\* C31: every agent's concurrent_tasks is the number of tasks in its table whose status
\* is pending or in_progress, and so never negative
C31_CountMatchesOpenTasks ==
    \A a \in Agents :
        /\ biometrics[a].concurrent_tasks =
               Cardinality({id \in DOMAIN tasks[a] :
                               tasks[a][id].status \in {"pending", "in_progress"}})
        /\ biometrics[a].concurrent_tasks >= 0

\* the ledger's entries for a task of an agent
EntriesFor(recs, a, id) ==
    {i \in 1..Len(recs) : recs[i].agent_name = a /\ recs[i].task_id = id}

\* C32: the ledger holds at most one entry per agent and task, and a completion report
\* for a task that is already completed (the report is accepted and no task changes its
\* status) adds no entry and leaves the totals and the agents' biometrics as they were
C32_CreditedAtMostOnce ==
    [][/\ \A a \in Agents : \A id \in DOMAIN tasks[a] :
             Cardinality(EntriesFor(records', a, id)) <= 1
       /\ (/\ last'.op = "record_task_completion"
           /\ last'.ret = "completed"
           /\ \A a \in Agents : \A id \in DOMAIN tasks[a] :
                  tasks'[a][id].status = tasks[a][id].status)
          => /\ records' = records
             /\ agent_totals' = agent_totals
             /\ biometrics' = biometrics]_vars

\* C33: when a take_break or a rest of an agent finishes and the agent then has fewer
\* than three tasks, stress at most 0.7, load at most 0.8 and fewer than eight hours
\* worked, the agent is out of recovery and its gate admits a task
C33_RecoveryEnds ==
    [][\A a \in Agents :
          (/\ resting'[a] # resting[a]
           /\ resting'[a] \subseteq resting[a]
           /\ biometrics'[a].concurrent_tasks < MAX_CONCURRENT_TASKS
           /\ biometrics'[a].stress_level <= STRESS_THRESHOLD
           /\ biometrics'[a].cognitive_load <= LOAD_THRESHOLD
           /\ biometrics'[a].hours_worked_today < MAX_HOURS_PER_DAY)
          => /\ biometrics'[a].current_status # "recovery"
             /\ can_accept_task(biometrics'[a])]_vars

\* C34: directly after receive_briefing has started a new ceremony, generate_proposal
\* returns its error (there is no deliberation on this briefing), and neither authorize
\* nor deploy finds a proposal to act on
C34_NothingCarriedIntoNewCeremony ==
    [][(last.op = "receive_briefing" /\ last.ret = "convened")
       => /\ last'.op = "generate_proposal" => last'.ret = "error"
          /\ last'.op = "authorize" => last'.ret = "error"
          /\ last'.op = "deploy" => last'.ret = "error"]_vars

\* C35: a ceremony operation that returns an error (receive_briefing with an empty
\* briefing, generate_proposal without a deliberation record, authorize without a
\* proposal, deploy without an authorized proposal) leaves the phase as it was
C35_ErrorLeavesPhase ==
    [][(last'.op \in {"receive_briefing", "generate_proposal", "authorize", "deploy"}
           /\ last'.ret = "error")
       => phase' = phase]_vars

\* an assignment without the depends_on that coordinate_dependencies may add
WithoutDependsOn(a) == [k \in DOMAIN a \ {"depends_on"} |-> a[k]]

\* assignment a names the task_id of assignment b among its dependencies
DependsOn(a, b) ==
    \E k \in 1..Len(Get(a, "depends_on", <<>>)) : a.depends_on[k] = Get(b, "task_id", "")

\* C36: coordinate_dependencies returns its input assignments, each exactly as often as
\* it was given, ordered so that an assignment comes after every assignment it depends
\* on, and no assignment depends on itself
C36_PermutationInDependencyOrder ==
    last.op = "optimize_distribution" =>
        LET input == last.ret.assignments
            ordered == coordinate_dependencies(input)
            Count(seq, x) == Cardinality({i \in 1..Len(seq) : seq[i] = x})
            stripped == [i \in 1..Len(ordered) |-> WithoutDependsOn(ordered[i])]
        IN  /\ Len(ordered) = Len(input)
            /\ \A i \in 1..Len(input) : Count(stripped, input[i]) = Count(input, input[i])
            /\ \A i, j \in 1..Len(ordered) : DependsOn(ordered[i], ordered[j]) => j < i

(***************************************************************************)
(* The ceremony on a council whose spark is at work on tasks an earlier    *)
(* deployment started, with completions of those tasks reported while the  *)
(* ceremony runs.                                                          *)
(***************************************************************************)
\* the tasks held, as execute_deployment leaves them: assigned and started
RunningTasks(n) ==
    [id \in DOMAIN EarlierTasks(n) |->
        [EarlierTasks(n)[id] EXCEPT !.status = "in_progress", !.started = TRUE]]

InitRunning ==
    /\ phase = "idle"
    /\ current_briefing = None
    /\ deliberation_record = None
    /\ current_proposal = None
    /\ sofie_briefing = [a \in Agents |-> None]
    /\ current_meeting = None
    /\ \E n \in {MAX_CONCURRENT_TASKS - 1, MAX_CONCURRENT_TASKS} :
          /\ biometrics = [a \in Agents |->
                              IF a = BusyAgent
                              THEN [NewBiometrics EXCEPT !.concurrent_tasks = n,
                                                         !.current_status = "working"]
                              ELSE NewBiometrics]
          /\ tasks = [a \in Agents |-> IF a = BusyAgent THEN RunningTasks(n) ELSE <<>>]
    /\ current_task = [a \in Agents |-> IF a = BusyAgent THEN [id |-> -1] ELSE None]
    /\ resting = [a \in Agents |-> {}]
    /\ clock = 0
    /\ records = <<>>
    /\ agent_totals = <<>>
    /\ disk = Absent
    /\ hex_ledger = <<>>
    /\ accrual_history = <<>>
    /\ client = NewClient
    /\ last = Ret("init", "ok", <<>>)

\* two tasks for spark, whose ring neighbours do not score on them
QueuedBriefings ==
    {[critical_path |-> <<"design UI component">>],
     [critical_path |-> <<"design UI component", "design UI component">>]}

NextQueued ==
    \/ \E b \in QueuedBriefings : receive_briefing(b)
    \/ deliberate
    \/ generate_proposal
    \/ \E authorized \in BOOLEAN : authorize(authorized)
    \/ deploy
    \/ \E agent_name \in {BusyAgent}, task_id \in ReportedIds, hours_worked \in HoursWorked,
          quality_tenths \in QualityTenths :
           ReportCompletion(agent_name, task_id, hours_worked, quality_tenths)

SpecQueued == InitRunning /\ [][NextQueued]_vars

\* the plan status of an assignment: "queued" where the deliberation found no capacity
PlanStatus(assignment) == Get(assignment, "status", "")

\* C37: queued and deployed stay distinguishable: a deploy creates and starts no task
\* for an assignment that the deliberation marked queued, so no assignment with plan
\* status queued is reported deployed
C37_QueuedNeverDeployed ==
    [][(last'.op = "deploy" /\ last'.ret = "deployed") =>
          \A i \in 1..Len(DeploymentResults) :
              PlanStatus(DeploymentResults[i].assignment) = "queued"
                  => DeploymentResults[i].status # "deployed"]_vars

RECURSIVE PlannedHours(_)
\* the estimated_hours the assignments carry, added up
PlannedHours(assignments) ==
    IF assignments = <<>> THEN 0
    ELSE Get(Head(assignments), "estimated_hours", 0) + PlannedHours(Tail(assignments))

\* C38: the ledger estimate attached to an approved deliberation is the base rate 10
\* times the plan's estimated hours: each agent's hours are the sum of estimated_hours
\* of its assignments, and total_nectar is 10 times the sum over all assignments
C38_EstimateIsTenTimesHours ==
    (deliberation_record # None /\ Get(deliberation_record, "status", "") = "complete") =>
        LET plan == deliberation_record.assignments
            estimate == deliberation_record.nectar_estimate
            of(a) == SelectSeq(plan, LAMBDA x : x.agent = a)
        IN  /\ \A a \in DOMAIN estimate.by_agent :
                   estimate.by_agent[a].hours = PlannedHours(of(a))
            /\ estimate.total_nectar = 10 * PlannedHours(plan)

\* the names get_ecosystem_build_targets and list_permitted_repos return
ListedTargets ==
    {get_ecosystem_build_targets[i] : i \in 1..Len(get_ecosystem_build_targets)}
        \cup {list_permitted_repos[i] : i \in 1..Len(list_permitted_repos)}

\* C39: the permitted list and the guard agree: every name that
\* get_ecosystem_build_targets / list_permitted_repos return is not sovereign
\* territory, so a resource operation called with a listed build target passes the
\* guard and gives its result
C39_ListedTargetsPassGuard ==
    [][(last'.op \in DOMAIN AttemptedAction /\ CalledWith(last'.ret) \in ListedTargets) =>
          /\ ~is_sovereign_territory(CalledWith(last'.ret))
          /\ "raised" \notin DOMAIN last'.ret]_vars

(***************************************************************************)
(* The ceremony of a new council on briefings whose tasks name sovereign   *)
(* territory.                                                              *)
(***************************************************************************)
TargetBriefings == {[critical_path |-> <<d>>] : d \in TargetTasks}

NextTargets ==
    \/ \E b \in TargetBriefings : receive_briefing(b)
    \/ deliberate
    \/ generate_proposal
    \/ \E authorized \in BOOLEAN : authorize(authorized)
    \/ deploy

SpecTargets == Init /\ [][NextTargets]_vars

\* the target-resource names of the assignments that have one
TargetsOf(assignments) ==
    {assignments[i].repo : i \in {j \in 1..Len(assignments) : "repo" \in DOMAIN assignments[j]}}

\* the target-resource names of the plan deliberated and of the plan proposed
PlannedTargets ==
    (IF deliberation_record # None /\ "assignments" \in DOMAIN deliberation_record
     THEN TargetsOf(deliberation_record.assignments) ELSE {})
    \cup (IF current_proposal # None
          THEN TargetsOf(current_proposal.council_plan.assignments) ELSE {})

\* the target-resource names of the tasks the agents hold
TaskTargets == UNION {{tasks[a][id].repo : id \in DOMAIN tasks[a]} : a \in Agents}

\* C40: the ceremony never targets sovereign territory: whatever the briefing and its
\* task descriptions, the target-resource name of every assignment of a plan and of
\* every Task that deployment creates is one for which is_sovereign_territory is false
C40_NoSovereignTarget ==
    \A repo \in PlannedTargets \cup TaskTargets : ~is_sovereign_territory(repo)

\* a task naming sovereign territory is deployed and under way, on another repository
C40_SovereignNamedTaskDeployed ==
    /\ last.op = "deploy"
    /\ last.ret = "deployed"
    /\ \E a \in Agents : \E id \in DOMAIN tasks[a] :
          /\ tasks[a][id].title = "patch sofie-llama-backend api"
          /\ tasks[a][id].repo = "terracare-bridge"
          /\ tasks[a][id].status = "in_progress"
    /\ "terracare-bridge" \in PlannedTargets


==============================================================================
